---------------------------- MODULE Spec2Model ----------------------------
(***************************************************************************)
(* A model of the match-link capture scripts: pagination discovery, link   *)
(* harvesting, persistence of the collected links and the season capture   *)
(* orchestrator of selenium_capture_links.py.                              *)
(*                                                                         *)
(* The pure functions are checked under specifications of their own, whose *)
(* initial states draw the inputs from bounded sets; Spec is the run of     *)
(* capture_links_selenium:                                                 *)
(*   SpecPages    get_pagination_pages                                     *)
(*   SpecExtract  extract_match_links_from_html                            *)
(*   SpecSave     save_collected_links, one call                           *)
(*   SpecFiles    save_collected_links, two captures sharing the directory *)
(*   SpecArgs     the argument checks of the two entry points              *)
(*   SpecNavigate navigate_to_page                                         *)
(*   SpecBanner   dismiss_cookie_banner                                    *)
(*   SpecScroll   scroll_until_loaded                                      *)
(*   SpecPage     the page loop of capture_links_selenium, stage by stage  *)
(*   SpecWaits    the bounded waits against the clock; SpecWaitsFair is    *)
(*                the same with the program always taking its next step    *)
(*   SpecReplay   save_collected_links, then the CSV loader of             *)
(*                CLIArgumentHandler.parse_and_validate_args               *)
(*   SpecStorage  LocalDataStorage.save_data in CSV format, call by call   *)
(* Python values are modelled as follows: a str is a sequence of           *)
(* one-character strings, a list is a sequence, a set is a set, None is a  *)
(* record field "set" that is FALSE.                                       *)
(***************************************************************************)
EXTENDS Integers, Sequences, FiniteSets, Bags, TLC

VARIABLES
    \* ---- get_pagination_pages (SpecPages) ----
    dom,            \* the pagination-related elements of the rendered page, in document order
    live_exc,       \* driver.find_elements raises in the live query
    src_exc,        \* driver.page_source raises in the fallback
    max_pages,      \* args.max_pages: [set |-> FALSE] is None
    pages_pc,       \* "call" before the call, "done" after it
    pages_ret,      \* the list get_pagination_pages returned
    \* ---- extract_match_links_from_html (SpecExtract) ----
    html,           \* the markup snapshot: its anchors, in document order
    extract_pc,     \* "call" before the call, "done" after it
    extract_ret,    \* the links extract_match_links_from_html returned
    \* ---- save_collected_links (SpecSave, SpecFiles) ----
    fs,             \* the capturelinks directory: file name -> rows of the file
    now,            \* the wall clock, in ticks
    sv_base_url,    \* the base_url argument of the call
    sv_links,       \* the links argument of the call
    save_pc,        \* "call" before the call, "done" after it
    written,        \* per capture, the file it wrote: [done, name, rows]
    \* ---- capture_links_selenium (Spec) ----
    run_pc,         \* the position of the run
    leagues,        \* _split_csv_argument(args.leagues)
    seasons,        \* _split_csv_argument(args.seasons)
    li,             \* the index of the league of the current combination
    si,             \* the index of its season
    driver,         \* the browser session: "none", "open" or "closed"
    quit_calls,     \* the calls of driver.quit()
    outcome,        \* "running", then "returned" or "raised"
    base_url,       \* the listing URL of the current combination
    pages_to_scrape, \* the PaginationRange of the current combination
    page_i,         \* the position in pages_to_scrape of the next iteration
    all_links,      \* the links accumulated for the current combination, a bag
    log,            \* history: the logger.error records of the combination, by position
    visited,        \* history: the page indices whose iteration began, in order
    harvested,      \* history: the union of the link sets extracted for the combination
    saved,          \* history: one record per call of save_collected_links
    \* ---- the argument checks of the two entry points (SpecArgs) ----
    entry,          \* "selenium": capture_links_selenium, "playwright": capture_links
    raw_leagues,    \* args.leagues, as given on the command line
    raw_seasons,    \* args.seasons
    args_pc,        \* the position of the entry point
    args_exc,       \* the exception the entry point raised, or "none"
    effects,        \* history: the effects of the entry point, in order
    \* ---- navigate_to_page (SpecNavigate) ----
    target_page,    \* the target_page argument
    nav_pc,         \* "loop" in the while loop, then "returned" or "timed_out"
    nav_tries,      \* the iterations of the while loop so far
    attempted_js_hash, \* the flag of the same name
    nav_events,     \* history: what the call did to the browser, in order
    \* ---- dismiss_cookie_banner (SpecBanner) ----
    banner_dom,     \* what the element queries of the call find
    banner_pc,      \* "loop" in the while loop, then "returned" or "raised"
    banner_polls,   \* the iterations of the while loop so far
    banner_events,  \* history: the clicks of the call, in order
    banner_rounds,  \* history: per iteration, the candidates it went through, in order
    \* ---- scroll_until_loaded (SpecScroll) ----
    scroll_pc,      \* "loop", then "break", "timeout" or "raised"
    last_height,    \* the local of the same name
    attempts,       \* the local of the same name
    content_seen,   \* the local of the same name
    height_log,     \* history: the heights read, the one before the loop first
    content_log,    \* history: per iteration, what the content query gave
    \* ---- the page loop of capture_links_selenium, by stage (SpecPage) ----
    \* (it also uses pages_to_scrape, page_i, all_links, visited, nav_tries
    \* and attempted_js_hash of the groups above)
    pg_pc,          \* the stage of the current iteration that runs next
    pg_polls,       \* the polls of the current wait so far
    prev_sig,       \* the local of the same name; NoSig is None
    loc,            \* the browser: the page index of the location fragment, or NoPage
    shown,          \* the browser: the listing page rendered, [page, rows]
    pending,        \* the browser: the page index a navigation will render, or NoPage
    initial_view,   \* history: location and rendered page after the initial load
    page_html,      \* the markup driver.page_source returned in this iteration
    pg_events,      \* history: the stages of the iteration that ended, in order
    pg_timeouts,    \* history: the waits of the iteration that ended by timeout
    page_log,       \* history: the log records of the iteration, in order
    sig_obs,        \* history: the signatures the signature wait read, in order
    sig_changed,    \* history: the rendered signature left prev_sig during that wait
    \* ---- the bounded waits against the clock (SpecWaits) ----
    w_kind,         \* the wait that runs
    w_pc,           \* "loop" at the loop condition, "sleep" before the pause, then "returned" or "raised"
    w_clock,        \* the time since the call, in tenths of a second
    w_result,       \* what the wait returned, or the exception it raised
    w_expired,      \* history: the wait ended because its deadline had passed
    w_last_height,  \* scroll_until_loaded: the local last_height
    w_attempts,     \* scroll_until_loaded: the local attempts
    w_seen,         \* scroll_until_loaded: the local content_seen
    w_steady,       \* history: some iteration of the scroll read an unchanged height
    \* ---- capture, then replay of the written file (SpecReplay) ----
    rp_links,       \* the links argument of save_collected_links
    rp_pc,          \* "save", then "load", then "done"
    rp_file,        \* the text of the file save_collected_links wrote
    rp_loaded,      \* args.match_links after parse_and_validate_args
    \* ---- LocalDataStorage.save_data, CSV format (SpecStorage) ----
    st_file,        \* the lines of the target file, each a list of fields
    st_exists,      \* the target file exists
    st_calls,       \* history: the data argument of each call, in call order
    st_exc          \* what the last call raised, or "none"

pagesVars == <<dom, live_exc, src_exc, max_pages, pages_pc, pages_ret>>

extractVars == <<html, extract_pc, extract_ret>>

saveVars == <<fs, now, sv_base_url, sv_links, save_pc, written>>

runVars ==
    <<run_pc, leagues, seasons, li, si, driver, quit_calls, outcome, base_url,
      pages_to_scrape, page_i, all_links, log, visited, harvested, saved>>

argsVars == <<entry, raw_leagues, raw_seasons, args_pc, args_exc, effects>>

navVars == <<target_page, nav_pc, nav_tries, attempted_js_hash, nav_events>>

\* the groups of the specifications that follow the run
bannerVars ==
    <<banner_dom, banner_pc, banner_polls, banner_events, banner_rounds>>

scrollVars ==
    <<scroll_pc, last_height, attempts, content_seen, height_log, content_log>>

pageVars ==
    <<pg_pc, pg_polls, prev_sig, loc, shown, pending, initial_view, page_html,
      pg_events, pg_timeouts, page_log, sig_obs, sig_changed>>

moreVars == <<argsVars, navVars, bannerVars, scrollVars, pageVars>>

waitVars ==
    <<w_kind, w_pc, w_clock, w_result, w_expired, w_last_height, w_attempts,
      w_seen, w_steady>>

replayVars == <<rp_links, rp_pc, rp_file, rp_loaded>>

storageVars == <<st_file, st_exists, st_calls, st_exc>>

laterVars == <<waitVars, replayVars, storageVars>>

vars == <<pagesVars, extractVars, saveVars, runVars, moreVars, laterVars>>

\* what the actions of one specification leave alone
othersOfPages == <<extractVars, saveVars, runVars, moreVars, laterVars>>

othersOfExtract == <<pagesVars, saveVars, runVars, moreVars, laterVars>>

othersOfSave == <<pagesVars, extractVars, runVars, moreVars, laterVars>>

\* the run uses max_pages, fs and now of the groups above
othersOfArgs ==
    <<pagesVars, extractVars, saveVars, runVars, navVars, bannerVars, scrollVars,
      pageVars, laterVars>>

othersOfNavigate ==
    <<pagesVars, extractVars, saveVars, runVars, argsVars, bannerVars, scrollVars,
      pageVars, laterVars>>

othersOfBanner ==
    <<pagesVars, extractVars, saveVars, runVars, argsVars, navVars, scrollVars,
      pageVars, laterVars>>

othersOfScroll ==
    <<pagesVars, extractVars, saveVars, runVars, argsVars, navVars, bannerVars,
      pageVars, laterVars>>

\* the page loop uses pages_to_scrape, page_i, all_links and visited of the
\* run, nav_tries and attempted_js_hash of navigate_to_page
othersOfPage ==
    <<pagesVars, extractVars, saveVars, argsVars, bannerVars, scrollVars,
      run_pc, leagues, seasons, li, si, driver, quit_calls, outcome, base_url,
      log, harvested, saved, target_page, nav_pc, nav_events, laterVars>>

othersOfRun ==
    <<dom, live_exc, src_exc, pages_pc, pages_ret, extractVars,
      sv_base_url, sv_links, save_pc, written, moreVars, laterVars>>

othersOfWaits ==
    <<pagesVars, extractVars, saveVars, runVars, moreVars, replayVars,
      storageVars>>

othersOfReplay ==
    <<pagesVars, extractVars, saveVars, runVars, moreVars, waitVars,
      storageVars>>

othersOfStorage ==
    <<pagesVars, extractVars, saveVars, runVars, moreVars, waitVars,
      replayVars>>

-----------------------------------------------------------------------------
(* Bounds of the model *)

\* the longest list of pagination-related elements of a page
MaxElems == 2
\* the largest page index an element's text spells
MaxIndex == 2
\* the largest --max-pages value drawn
MaxPagesArg == 2
\* the most anchors of a markup snapshot
MaxAnchors == 1
\* the longest href of an anchor
MaxHrefLen == 7
\* the longest path of a listing URL, after its leading slash
MaxPathLen == 1
\* the longest link passed to save_collected_links, and the longest list
MaxLinkLen == 1
MaxLinks == 3
\* the clock: its last tick, and the ticks that make a second
MaxNow == 2
TicksPerSecond == 2
\* the most leagues and seasons of a run
MaxLeagues == 2
MaxSeasons == 1
\* the most anchors in the event rows of a rendered listing page
MaxRowAnchors == 1
\* the longest --leagues and --seasons value
MaxRawLen == 3
\* the iterations of the loop of navigate_to_page that fit in its timeout
MaxNavAttempts == 3
\* the iterations of the loop of dismiss_cookie_banner that fit in its
\* timeout, and the most button elements of the page
MaxBannerPolls == 3
MaxButtons == 1
\* the iterations of the loop of scroll_until_loaded that fit in its timeout,
\* and the largest document height
MaxScrollIters == 4
MaxHeight == 2
\* the polls of a wait of the page loop that fit in its timeout
MaxPolls == 2

\* the time the driver calls of one loop body take at most, in tenths of a
\* second
MaxCallTicks == 2

\* the links of a replayed capture and their length
MaxReplayLinks == 2
MaxReplayLen == 2

\* the calls of save_data on one path and the records of a call
MaxCalls == 2
MaxRecords == 2

-----------------------------------------------------------------------------
(* Helpers over Python values *)

Min2(a, b) == IF a <= b THEN a ELSE b

Max2(a, b) == IF a >= b THEN a ELSE b

SeqsUpTo(S, n) == UNION {[1..k -> S] : k \in 0..n}

Range(s) == {s[i] : i \in 1..Len(s)}

\* min(pages) and max(pages) of a non-empty collection of integers
PyMin(S) == CHOOSE m \in S : \A x \in S : m <= x

PyMax(S) == CHOOSE m \in S : \A x \in S : m >= x

\* list(range(a, b + 1))
PyRange(a, b) == [i \in 1..Max2(b - a + 1, 0) |-> a + i - 1]

\* s[:n], the slice of Python: a negative n counts from the end
PySlice(s, n) ==
    IF n >= 0 THEN SubSeq(s, 1, Min2(n, Len(s)))
    ELSE SubSeq(s, 1, Max2(Len(s) + n, 0))

\* bool(max_pages): None and 0 are falsy
Truthy(mp) == mp.set /\ mp.n # 0

\* s.strip(c)
RECURSIVE LStrip(_, _)
LStrip(s, c) == IF s # <<>> /\ Head(s) = c THEN LStrip(Tail(s), c) ELSE s

RECURSIVE RStrip(_, _)
RStrip(s, c) ==
    IF s # <<>> /\ s[Len(s)] = c THEN RStrip(SubSeq(s, 1, Len(s) - 1), c) ELSE s

Strip(s, c) == RStrip(LStrip(s, c), c)

\* s.split(c): the list of the segments between the separators, empty
\* segments kept; "".split(c) is [""]
RECURSIVE SplitFrom(_, _, _, _)
SplitFrom(s, c, done, cur) ==
    IF s = <<>> THEN Append(done, cur)
    ELSE IF Head(s) = c THEN SplitFrom(Tail(s), c, Append(done, cur), <<>>)
    ELSE SplitFrom(Tail(s), c, done, Append(cur, Head(s)))

Split(s, c) == SplitFrom(s, c, <<>>, <<>>)

\* s.replace(a, b) for single characters
Replace(s, a, b) == [i \in 1..Len(s) |-> IF s[i] = a THEN b ELSE s[i]]

\* ord(c) of the characters that occur in links
CodePoint(c) ==
    CASE c = " " -> 32 [] c = "-" -> 45 [] c = "." -> 46 [] c = "/" -> 47
      [] c = ":" -> 58 [] c = "_" -> 95 [] c = "a" -> 97 [] c = "b" -> 98
      [] c = "c" -> 99 [] c = "d" -> 100 [] c = "h" -> 104 [] c = "l" -> 108
      [] c = "m" -> 109 [] c = "o" -> 111 [] c = "p" -> 112 [] c = "r" -> 114
      [] c = "s" -> 115 [] c = "t" -> 116 [] c = "w" -> 119
      [] c = "\"" -> 34 [] c = "," -> 44

\* s < t for str: the first differing character decides, a proper prefix is less
RECURSIVE StrLess(_, _)
StrLess(s, t) ==
    IF t = <<>> THEN FALSE
    ELSE IF s = <<>> THEN TRUE
    ELSE IF Head(s) # Head(t) THEN CodePoint(Head(s)) < CodePoint(Head(t))
    ELSE StrLess(Tail(s), Tail(t))

\* sorted(S) of a set of str
RECURSIVE Sorted(_)
Sorted(S) ==
    IF S = {} THEN <<>>
    ELSE LET least == CHOOSE x \in S : \A y \in S \ {x} : StrLess(x, y)
         IN  <<least>> \o Sorted(S \ {least})

\* the index of the first c in s at or after position i, 0 when there is none
RECURSIVE Find(_, _, _)
Find(s, c, i) ==
    IF i > Len(s) THEN 0 ELSE IF s[i] = c THEN i ELSE Find(s, c, i + 1)

\* urlparse(url).path of a url without query and fragment: what follows the
\* scheme and, after "//", the network location, which ends at the next "/"
UrlPath(url) ==
    LET colon == Find(url, ":", 1)
        rest == SubSeq(url, colon + 1, Len(url))
    IN  IF Len(rest) >= 2 /\ rest[1] = "/" /\ rest[2] = "/"
        THEN LET slash == Find(rest, "/", 3)
             IN  IF slash = 0 THEN <<>> ELSE SubSeq(rest, slash, Len(rest))
        ELSE rest

-----------------------------------------------------------------------------
(* get_pagination_pages *)

\* The text of an element: isdigit is str.isdigit() of the stripped text, val
\* the value int() gives it; val = -1 is a text str.isdigit() accepts and int()
\* rejects with ValueError (a superscript digit).
Texts ==
    {[isdigit |-> TRUE, val |-> n] : n \in 0..MaxIndex}
        \cup {[isdigit |-> TRUE, val |-> -1], [isdigit |-> FALSE, val |-> 0]}

\* "link": a.pagination-link without rel='next'; "next": a.pagination-link
\* with rel='next'; "nav": nav[class*='pagination'] or an anchor below
\* ul[class*='pagination'] that is no a.pagination-link
Kinds == {"link", "next", "nav"}

Elements == [kind : Kinds, text : Texts]

\* driver.find_elements(By.CSS_SELECTOR, "a.pagination-link:not([rel='next'])")
LiveSelect(d) == SelectSeq(d, LAMBDA e : e.kind = "link")

\* soup.select("a.pagination-link, nav[class*='pagination'], ul[class*='pagination'] a")
FallbackSelect(d) == SelectSeq(d, LAMBDA e : e.kind \in {"link", "next", "nav"})

\* The loop over link_elems: an element whose text is no digit string is
\* skipped, and so is one whose int() raises (the except inside the loop).
RECURSIVE LiveParse(_, _)
LiveParse(elems, pages) ==
    IF elems = <<>> THEN pages
    ELSE LET t == Head(elems).text
         IN  IF t.isdigit /\ t.val >= 0
             THEN LiveParse(Tail(elems), Append(pages, t.val))
             ELSE LiveParse(Tail(elems), pages)

\* The loop over containers: an int() that raises leaves the loop (the except
\* around the whole fallback), with the indices appended so far kept.
RECURSIVE FallbackParse(_, _)
FallbackParse(elems, pages) ==
    IF elems = <<>> THEN pages
    ELSE LET t == Head(elems).text
         IN  IF ~t.isdigit THEN FallbackParse(Tail(elems), pages)
             ELSE IF t.val < 0 THEN pages
             ELSE FallbackParse(Tail(elems), Append(pages, t.val))

\* pages after the live query
LivePages(d, lexc) == IF lexc THEN <<>> ELSE LiveParse(LiveSelect(d), <<>>)

\* pages after the fallback, which runs only when the live query found none
DiscoveredPages(d, lexc, sexc) ==
    LET pages == LivePages(d, lexc)
    IN  IF pages # <<>> THEN pages
        ELSE IF sexc THEN <<>>
        ELSE FallbackParse(FallbackSelect(d), <<>>)

\* a variant that returns sorted(set(pages)) without filling the gaps
FullRangeNoFill(pages) ==
    LET S == Range(pages)
    IN  [i \in 1..Cardinality(S) |->
            CHOOSE x \in S : Cardinality({y \in S : y < x}) = i - 1]

\* pages = sorted(set(pages)); full = list(range(min_p, max_p + 1))
FullRange(pages) ==
    LET min_p == PyMin(Range(pages))
        max_p == PyMax(Range(pages))
    IN  PyRange(min_p, max_p)

\* a variant that truncates the default range like a discovered one
EmptyPagesSliced(mp) == IF Truthy(mp) THEN PySlice(<<1>>, mp.n) ELSE <<1>>

\* the result when no index was discovered
EmptyPages(mp) == <<1>>

get_pagination_pages(d, lexc, sexc, mp) ==
    LET pages == DiscoveredPages(d, lexc, sexc)
    IN  IF pages = <<>> THEN EmptyPages(mp)
        ELSE LET full == FullRange(pages)
             IN  IF Truthy(mp) THEN PySlice(full, mp.n) ELSE full

MaxPagesArgs ==
    {[set |-> FALSE, n |-> 0]} \cup {[set |-> TRUE, n |-> k] : k \in -1..MaxPagesArg}

InitPages ==
    /\ dom \in SeqsUpTo(Elements, MaxElems)
    /\ live_exc \in BOOLEAN
    /\ src_exc \in BOOLEAN
    /\ max_pages \in MaxPagesArgs
    /\ pages_pc = "call"
    /\ pages_ret = <<>>

CallGetPaginationPages ==
    /\ pages_pc = "call"
    /\ pages_ret' = get_pagination_pages(dom, live_exc, src_exc, max_pages)
    /\ pages_pc' = "done"
    /\ UNCHANGED <<dom, live_exc, src_exc, max_pages>>
    /\ UNCHANGED othersOfPages

\* the values of these variables under the other specifications
IdlePages ==
    /\ dom = <<>>
    /\ live_exc = FALSE
    /\ src_exc = FALSE
    /\ max_pages = [set |-> FALSE, n |-> 0]
    /\ pages_pc = "idle"
    /\ pages_ret = <<>>

NextPages == CallGetPaginationPages

-----------------------------------------------------------------------------
(* Properties of get_pagination_pages, checked under SpecPages *)

\* the raw indices the call discovered
Discovered == DiscoveredPages(dom, live_exc, src_exc)

StrictlyAscending(s) == \A i, j \in 1..Len(s) : i < j => s[i] < s[j]

\* the integers from the least to the greatest element of S
Between(S) == {k \in 0..MaxIndex : \E a, b \in S : a <= k /\ k <= b}

\* C1: with a non-empty collection of discovered indices (any order,
\* duplicates, gaps) and no max_pages limit, the returned list is the
\* ascending sequence of every integer from the least to the greatest
\* discovered index, each once.
C1_ContiguousRange ==
    (pages_pc = "done" /\ ~max_pages.set /\ Discovered # <<>>) =>
        /\ StrictlyAscending(pages_ret)
        /\ Range(pages_ret) = Between(Range(Discovered))

\* C1 witness: indices discovered out of order and with a gap, which the
\* returned range fills.
C1_Witness ==
    /\ pages_pc = "done" /\ ~max_pages.set
    /\ Len(Discovered) = 2 /\ Discovered[1] > Discovered[2] + 1
    /\ \E k \in Range(pages_ret) : k \notin Range(Discovered)

\* the first n elements of s, all of s when n exceeds its length
FirstN(s, n) == SubSeq(s, 1, Min2(Max2(n, 0), Len(s)))

\* C2: for every integer N supplied as --max-pages and every discovered index
\* set, the returned list is the first N elements of the contiguous range from
\* the least to the greatest discovered index (all of it when N exceeds its
\* length).
C2_FirstNOfRange ==
    (pages_pc = "done" /\ max_pages.set /\ Discovered # <<>>) =>
        pages_ret =
            FirstN(PyRange(PyMin(Range(Discovered)), PyMax(Range(Discovered))),
                   max_pages.n)

\* C3: when neither the live query nor the markup fallback yields a numeric
\* index (or they fail with an exception), the call returns exactly [1],
\* whatever max_pages is.
C3_DefaultSinglePage ==
    (/\ pages_pc = "done"
     /\ LivePages(dom, live_exc) = <<>>
     /\ (src_exc \/ FallbackParse(FallbackSelect(dom), <<>>) = <<>>)) =>
        pages_ret = <<1>>

\* C3 witness: both queries ran over a page with elements and found no
\* numeric index, with a max_pages limit given.
C3_Witness ==
    /\ pages_pc = "done" /\ pages_ret = <<1>>
    /\ ~live_exc /\ ~src_exc /\ Len(dom) = MaxElems
    /\ max_pages.set /\ max_pages.n # 1
    /\ Discovered = <<>>

\* C22: on a page where the live query gave no index and the fallback ran,
\* the fallback selects the elements the live selector selects (pagination
\* anchors without the one of the 'next' relation), and the indices it
\* parses are those the live selector would parse from the same page.
C22_FallbackSelectsAsLive ==
    (pages_pc = "done" /\ LivePages(dom, live_exc) = <<>> /\ ~src_exc) =>
        /\ FallbackSelect(dom) = LiveSelect(dom)
        /\ Range(FallbackParse(FallbackSelect(dom), <<>>))
                = Range(LiveParse(LiveSelect(dom), <<>>))

\* C27: whatever pagination anchors were discovered, the list
\* get_pagination_pages returns begins with 1, so that the page loop
\* harvests the initially loaded page before it dispatches a navigation.
C27_FirstIndexIsOne ==
    pages_pc = "done" => (pages_ret # <<>> /\ pages_ret[1] = 1)

-----------------------------------------------------------------------------
(* extract_match_links_from_html *)

\* the site's base origin, prepended to every href
ODDSPORTAL_BASE_URL ==
    <<"h", "t", "t", "p", "s", ":", "/", "/", "w", "w", "w", ".",
      "o", "d", "d", "s", "p", "o", "r", "t", "a", "l", ".", "c", "o", "m">>

\* the characters hrefs are drawn from
HrefChars == {"/", "a", ":"}

Hrefs == SeqsUpTo(HrefChars, MaxHrefLen)

\* An anchor of the markup: in_row says that it lies below an element whose
\* class matches ^eventRow, has_href that it carries an href attribute.
Anchors ==
    [in_row : BOOLEAN, has_href : {TRUE}, href : Hrefs]
        \cup [in_row : BOOLEAN, has_href : {FALSE}, href : {<<>>}]

\* len(a["href"].strip("/").split("/")) > 3
HrefAccepted(href) == Len(Split(Strip(href, "/"), "/")) > 3

\* the set comprehension over the anchors with an href of the event rows
extract_match_links_from_html(h) ==
    {ODDSPORTAL_BASE_URL \o h[i].href :
        i \in {j \in 1..Len(h) :
                h[j].in_row /\ h[j].has_href /\ HrefAccepted(h[j].href)}}

InitExtract ==
    /\ html \in SeqsUpTo(Anchors, MaxAnchors)
    /\ extract_pc = "call"
    /\ extract_ret = {}

CallExtract ==
    /\ extract_pc = "call"
    /\ extract_ret' = extract_match_links_from_html(html)
    /\ extract_pc' = "done"
    /\ UNCHANGED html
    /\ UNCHANGED othersOfExtract

IdleExtract ==
    /\ html = <<>>
    /\ extract_pc = "idle"
    /\ extract_ret = {}

NextExtract == CallExtract

-----------------------------------------------------------------------------
(* Properties of extract_match_links_from_html, checked under SpecExtract *)

\* the segments of the path portion of a link, slashes trimmed
PathSegments(link) == Split(Strip(UrlPath(link), "/"), "/")

\* C4: the path portion of every link extract_match_links_from_html returns,
\* with leading and trailing slashes trimmed, splits on "/" into more than
\* three segments, all of them non-empty.
C4_MoreThanThreeNonEmptySegments ==
    extract_pc = "done" =>
        \A link \in extract_ret :
            /\ Len(PathSegments(link)) > 3
            /\ \A i \in 1..Len(PathSegments(link)) : PathSegments(link)[i] # <<>>

-----------------------------------------------------------------------------
(* save_collected_links *)

\* the header row
MatchLinkHeader == <<"m", "a", "t", "c", "h", "_", "l", "i", "n", "k">>

\* "links" of `parsed_url.path.strip("/") or "links"`
DefaultSlug == <<"l", "i", "n", "k", "s">>

\* base_slug.replace("/", "_").replace(" ", "-") of the stripped path
SanitizedSlug(url) ==
    LET base_slug == IF Strip(UrlPath(url), "/") = <<>> THEN DefaultSlug
                     ELSE Strip(UrlPath(url), "/")
    IN  Replace(Replace(base_slug, "/", "_"), " ", "-")

\* datetime.now().strftime("%Y%m%d_%H%M%S"): the clock cut to whole seconds
Timestamp(t) == t \div TicksPerSecond

\* The file name f"{sanitized_slug}_{timestamp}.csv". The timestamp has a
\* fixed width, so the pair determines the name and the name the pair.
FilePath(url, t) ==
    [slug |-> SanitizedSlug(url), timestamp |-> Timestamp(t)]

\* a variant that writes the links as given
LinkRowsAsGiven(links) == links

\* the rows after the header: for link in sorted(set(links))
LinkRows(links) == Sorted(Range(links))

\* open("w") of the path, which truncates a file of that name
WriteFile(f, name, rows) ==
    [n \in DOMAIN f \cup {name} |-> IF n = name THEN rows ELSE f[n]]

\* a variant without the early return for an empty list
save_collected_links_always(f, t, url, links) ==
    WriteFile(f, FilePath(url, t), <<MatchLinkHeader>> \o LinkRows(links))

\* The directory after save_collected_links(base_url, links) at time t.
save_collected_links(f, t, url, links) ==
    IF links = <<>> THEN f
    ELSE WriteFile(f, FilePath(url, t), <<MatchLinkHeader>> \o LinkRows(links))

\* the characters of listing paths and of links
PathChars == {"/", "a", "_", " "}

LinkChars == {"a", "b"}

\* listing URLs: the base origin, a slash and a path
BaseUrls ==
    {ODDSPORTAL_BASE_URL \o <<"/">> \o p : p \in SeqsUpTo(PathChars, MaxPathLen)}

LinkLists == SeqsUpTo(SeqsUpTo(LinkChars, MaxLinkLen), MaxLinks)

NoFile == [done |-> FALSE, name |-> [slug |-> <<>>, timestamp |-> 0], rows |-> <<>>]

\* the captures that share the directory
Captures == {"c1", "c2"}

InitSave ==
    /\ fs = <<>>
    /\ now = 0
    /\ sv_base_url \in BaseUrls
    /\ sv_links \in LinkLists
    /\ save_pc = "call"
    /\ written = [c \in Captures |-> NoFile]

CallSave ==
    /\ save_pc = "call"
    /\ fs' = save_collected_links(fs, now, sv_base_url, sv_links)
    /\ save_pc' = "done"
    /\ UNCHANGED <<now, sv_base_url, sv_links, written>>
    /\ UNCHANGED othersOfSave

NextSave == CallSave

IdleSave ==
    /\ fs = <<>>
    /\ now = 0
    /\ sv_base_url = <<>>
    /\ sv_links = <<>>
    /\ save_pc = "idle"
    /\ written = [c \in Captures |-> NoFile]

\* Two captures (of one run, of successive runs or of two processes) reach
\* their save_collected_links call, each once, while the clock advances.
InitFiles ==
    /\ fs = <<>>
    /\ now = 0
    /\ sv_base_url = <<>>
    /\ sv_links = <<>>
    /\ save_pc = "files"
    /\ written = [c \in Captures |-> NoFile]

SaveBy(c) ==
    /\ save_pc = "files"
    /\ ~written[c].done
    /\ \E url \in BaseUrls, links \in LinkLists :
        /\ fs' = save_collected_links(fs, now, url, links)
        /\ written' = [written EXCEPT ![c] =
                [done |-> TRUE, name |-> FilePath(url, now),
                 rows |-> IF links = <<>> THEN <<>>
                          ELSE <<MatchLinkHeader>> \o LinkRows(links)]]
    /\ UNCHANGED <<now, sv_base_url, sv_links, save_pc>>
    /\ UNCHANGED othersOfSave

Tick ==
    /\ save_pc = "files"
    /\ now < MaxNow
    /\ now' = now + 1
    /\ UNCHANGED <<fs, sv_base_url, sv_links, save_pc, written>>
    /\ UNCHANGED othersOfSave

NextFiles == (\E c \in Captures : SaveBy(c)) \/ Tick

-----------------------------------------------------------------------------
(* Properties of save_collected_links, checked under SpecSave and SpecFiles *)

\* lexicographic order of str, by code points: s and t agree before position
\* k, where s has ended and t has not, or s has the lesser character
LexLess(s, t) ==
    \E k \in 1..(Min2(Len(s), Len(t)) + 1) :
        /\ \A i \in 1..(k - 1) : s[i] = t[i]
        /\ \/ k > Len(s) /\ k <= Len(t)
           \/ k <= Len(s) /\ k <= Len(t) /\ CodePoint(s[k]) < CodePoint(t[k])

\* C6: every file save_collected_links writes is the header row match_link
\* followed by the links in strictly increasing lexicographic order: no row
\* repeats and every input link appears exactly once, whatever the order and
\* duplication of the input list.
C6_FileSortedUnique ==
    save_pc = "done" =>
        \A name \in DOMAIN fs :
            LET rows == fs[name]
            IN  /\ rows[1] = MatchLinkHeader
                /\ \A i, j \in 2..Len(rows) : i < j => LexLess(rows[i], rows[j])
                /\ {rows[i] : i \in 2..Len(rows)} = Range(sv_links)

\* C6 witness: a file written from a list that repeats a link and is not in
\* order.
C6_Witness ==
    /\ save_pc = "done" /\ DOMAIN fs # {}
    /\ Len(sv_links) = 3 /\ sv_links[1] = sv_links[3]
    /\ LexLess(sv_links[2], sv_links[1])
    /\ \A name \in DOMAIN fs : Len(fs[name]) = 3

\* C8: no call of save_collected_links overwrites a file an earlier capture
\* wrote: the file of every capture still exists with the content that
\* capture gave it, also for two captures of the same listing URL in the
\* same second.
C8_NoOverwrite ==
    \A c \in Captures :
        (written[c].done /\ written[c].rows # <<>>) =>
            /\ written[c].name \in DOMAIN fs
            /\ fs[written[c].name] = written[c].rows

-----------------------------------------------------------------------------
(* capture_links_selenium *)

LeagueSlugs == {<<"a">>}

SeasonSlugs == {<<"a">>}

\* URLBuilder.get_historic_matches_url: the listing URL of a league and a
\* season, an opaque string to the capture
get_historic_matches_url(league, season) ==
    ODDSPORTAL_BASE_URL \o <<"/">> \o league \o <<"/">> \o season \o <<"/">>

\* the hrefs of the event rows of a listing page: two match links and a link
\* the segment filter rejects
RowHrefs ==
    {<<"/", "a", "/", "a", "/", "a", "/", "a">>,
     <<"/", "a", "/", "a", "/", "a", "/", "b">>,
     <<"/", "a">>}

\* driver.page_source of a rendered listing page
PageMarkups ==
    SeqsUpTo([in_row : {TRUE}, has_href : {TRUE}, href : RowHrefs], MaxRowAnchors)

\* what extract_match_links_from_html returns for these pages
PossibleHarvests == {extract_match_links_from_html(h) : h \in PageMarkups}

\* what get_pagination_pages returns, by args.max_pages
PageLists ==
    [mp \in MaxPagesArgs |->
        {get_pagination_pages(d, lexc, sexc, mp) :
            d \in SeqsUpTo(Elements, MaxElems), lexc \in BOOLEAN, sexc \in BOOLEAN}]

\* the lists list(S) may give: the elements of S in any order
ListsOf(S) == {l \in [1..Cardinality(S) -> S] : Range(l) = S}

\* random.randint(6, 8), in seconds
SettleDelays == 6..8

\* a variant that replaces the accumulated links by those of the page
ExtendLinksOverwrite(all, links) == SetToBag(links)

\* all_links.extend(links)
ExtendLinks(all, links) == all (+) SetToBag(links)

\* a variant that carries the links of the combination before
NewAccumulationCarried(carried) == carried

\* `all_links: list[str] = []` in the body of the season loop: the list the
\* page loop of a combination starts with, whatever the list held before
NewAccumulation(carried) == EmptyBag

\* a variant whose handler leaves the page loop
NextPageAfterErrorBreak(i, pages) == Len(pages) + 1

\* the position the loop continues with after `except Exception` of a page
NextPageAfterError(i, pages) == i + 1

InitRun ==
    /\ run_pc = "start"
    /\ leagues \in SeqsUpTo(LeagueSlugs, MaxLeagues)
    /\ seasons \in SeqsUpTo(SeasonSlugs, MaxSeasons)
    /\ li = 1
    /\ si = 1
    /\ driver = "none"
    /\ quit_calls = 0
    /\ outcome = "running"
    /\ base_url = <<>>
    /\ pages_to_scrape = <<>>
    /\ page_i = 1
    /\ all_links = EmptyBag
    /\ log = {}
    /\ visited = <<>>
    /\ harvested = {}
    /\ saved = <<>>

IdleRun ==
    /\ run_pc = "idle"
    /\ leagues = <<>>
    /\ seasons = <<>>
    /\ li = 1
    /\ si = 1
    /\ driver = "none"
    /\ quit_calls = 0
    /\ outcome = "running"
    /\ base_url = <<>>
    /\ pages_to_scrape = <<>>
    /\ page_i = 1
    /\ all_links = EmptyBag
    /\ log = {}
    /\ visited = <<>>
    /\ harvested = {}
    /\ saved = <<>>

\* The checks of the arguments: an empty list of leagues or of seasons raises
\* ValueError before build_driver is called.
CheckArguments ==
    /\ run_pc = "start"
    /\ \/ /\ (leagues = <<>> \/ seasons = <<>>)
          /\ outcome' = "raised"
          /\ run_pc' = "done"
       \/ /\ leagues # <<>> /\ seasons # <<>>
          /\ outcome' = outcome
          /\ run_pc' = "build"
    /\ UNCHANGED <<leagues, seasons, li, si, driver, quit_calls, base_url,
                   pages_to_scrape, page_i, all_links, log, visited, harvested,
                   saved, max_pages, fs, now>>
    /\ UNCHANGED othersOfRun

\* build_driver: webdriver.Chrome() raises and no session exists; or the
\* session is created and set_page_load_timeout raises, which leaves
\* capture_links_selenium before its try statement; or the driver is returned.
BuildDriver ==
    /\ run_pc = "build"
    /\ \/ /\ driver' = "none"
          /\ outcome' = "raised"
          /\ run_pc' = "done"
       \/ /\ driver' = "open"
          /\ outcome' = "raised"
          /\ run_pc' = "done"
       \/ /\ driver' = "open"
          /\ outcome' = outcome
          /\ run_pc' = "load"
    /\ UNCHANGED <<leagues, seasons, li, si, quit_calls, base_url,
                   pages_to_scrape, page_i, all_links, log, visited, harvested,
                   saved, max_pages, fs, now>>
    /\ UNCHANGED othersOfRun

\* The head of the body of the two loops, up to all_links = []: an exception
\* of get_historic_matches_url, driver.get or wait_dom_loaded leaves the try
\* statement; otherwise the listing is loaded, one second passes and
\* get_pagination_pages gives the pages.
LoadListing ==
    /\ run_pc = "load"
    /\ \/ /\ run_pc' = "finally_exc"
          /\ UNCHANGED <<base_url, pages_to_scrape, page_i, all_links, visited,
                         harvested, log, now>>
       \/ /\ base_url' = get_historic_matches_url(leagues[li], seasons[si])
          /\ now' = now + TicksPerSecond
          /\ pages_to_scrape' \in PageLists[max_pages]
          /\ all_links' = NewAccumulation(all_links)
          /\ page_i' = 1
          /\ visited' = <<>>
          /\ harvested' = {}
          /\ log' = {}
          /\ run_pc' = "pages"
    /\ UNCHANGED <<leagues, seasons, li, si, driver, quit_calls, outcome,
                   saved, max_pages, fs>>
    /\ UNCHANGED othersOfRun

\* One iteration of the page loop. The waits, the navigation and the settle
\* delay raise nothing; scroll_until_loaded and driver.page_source may raise,
\* and then the handler logs the error and the loop goes on. Otherwise the
\* links of the rendered markup are extracted and appended.
PageIteration ==
    /\ run_pc = "pages"
    /\ page_i <= Len(pages_to_scrape)
    /\ visited' = Append(visited, pages_to_scrape[page_i])
    /\ \E d \in SettleDelays : now' = now + d * TicksPerSecond
    /\ \/ /\ log' = log \cup {page_i}
          /\ page_i' = NextPageAfterError(page_i, pages_to_scrape)
          /\ UNCHANGED <<all_links, harvested>>
       \/ /\ \E links \in PossibleHarvests :
                /\ all_links' = ExtendLinks(all_links, links)
                /\ harvested' = harvested \cup links
          /\ page_i' = page_i + 1
          /\ log' = log
    /\ UNCHANGED <<run_pc, leagues, seasons, li, si, driver, quit_calls, outcome,
                   base_url, pages_to_scrape, saved, max_pages, fs>>
    /\ UNCHANGED othersOfRun

\* After the page loop: unique_links = list(set(all_links)) and
\* save_collected_links; then the next season, the next league or the end of
\* the try statement.
SaveLinks ==
    /\ run_pc = "pages"
    /\ page_i > Len(pages_to_scrape)
    /\ \E unique_links \in ListsOf(BagToSet(all_links)) :
        /\ fs' = save_collected_links(fs, now, base_url, unique_links)
        /\ saved' = Append(saved,
                [li |-> li, si |-> si, links |-> Range(unique_links),
                 harvested |-> harvested, name |-> FilePath(base_url, now),
                 new_files |-> Cardinality(DOMAIN fs') - Cardinality(DOMAIN fs)])
    /\ si' = IF si < Len(seasons) THEN si + 1
             ELSE IF li < Len(leagues) THEN 1 ELSE si
    /\ li' = IF si = Len(seasons) /\ li < Len(leagues) THEN li + 1 ELSE li
    /\ run_pc' = IF si = Len(seasons) /\ li = Len(leagues) THEN "finally_ok"
                 ELSE "load"
    /\ UNCHANGED <<leagues, seasons, driver, quit_calls, outcome, base_url,
                   pages_to_scrape, page_i, all_links, log, visited, harvested,
                   max_pages, now>>
    /\ UNCHANGED othersOfRun

\* The finally clause: driver.quit() is called once; an exception of it is
\* swallowed and leaves the session as it was. Then the function returns or
\* the pending exception propagates.
Finally ==
    /\ run_pc \in {"finally_ok", "finally_exc"}
    /\ quit_calls' = quit_calls + 1
    /\ \/ driver' = "closed"
       \/ driver' = driver
    /\ outcome' = IF run_pc = "finally_ok" THEN "returned" ELSE "raised"
    /\ run_pc' = "done"
    /\ UNCHANGED <<leagues, seasons, li, si, base_url, pages_to_scrape, page_i,
                   all_links, log, visited, harvested, saved, max_pages, fs, now>>
    /\ UNCHANGED othersOfRun

Next ==
    \/ CheckArguments
    \/ BuildDriver
    \/ LoadListing
    \/ PageIteration
    \/ SaveLinks
    \/ Finally

-----------------------------------------------------------------------------
(* Properties of capture_links_selenium, checked under Spec *)

\* the combinations of the run whose page loop has finished
SavedCaptures == 1..Len(saved)

\* rows is the header row followed by the links of S in increasing order
IsFileOf(rows, S) ==
    /\ Len(rows) = Cardinality(S) + 1
    /\ rows[1] = MatchLinkHeader
    /\ \A i, j \in 2..Len(rows) : i < j => LexLess(rows[i], rows[j])
    /\ {rows[i] : i \in 2..Len(rows)} = S

\* C5: the set of links handed to save_collected_links at the end of a page
\* loop is the union of the link sets extract_match_links_from_html returned
\* for the pages whose harvest completed: a link harvested on several pages
\* appears once, a page whose iteration raised contributes nothing.
C5_SavedIsUnionOfPages ==
    \A k \in SavedCaptures : saved[k].links = saved[k].harvested

\* C5 witness: a combination saved with the links of three completed pages,
\* two of which gave the same link.
C5_Witness ==
    /\ run_pc = "finally_ok" /\ saved # <<>>
    /\ Cardinality(saved[Len(saved)].links) = 2
    /\ BagCardinality(all_links) = 3

CombinationsDone ==
    IF run_pc = "finally_ok" THEN Len(leagues) * Len(seasons)
    ELSE (li - 1) * Len(seasons) + (si - 1)

\* C9: an exception of a page iteration is caught: the iterations of all the
\* later page indices still begin, the links of the earlier pages stay
\* accumulated, and save_collected_links is still called for the
\* combination.
C9_PageFailureDoesNotAbort ==
    /\ run_pc = "pages" =>
        /\ visited = SubSeq(pages_to_scrape, 1, page_i - 1)
        /\ log \subseteq 1..(page_i - 1)
        /\ harvested \subseteq BagToSet(all_links)
    /\ run_pc \in {"load", "pages", "finally_ok"} => Len(saved) = CombinationsDone

\* C9 witness: the second of three pages failed, the third was visited and
\* the links of two pages were saved.
C9_Witness ==
    /\ run_pc = "finally_ok" /\ saved # <<>>
    /\ log = {2} /\ Len(visited) = 3
    /\ Cardinality(saved[Len(saved)].links) = 2

\* C10: on every exit path after the browser session was created, its
\* teardown (driver.quit) has been attempted exactly once when the run
\* returns or propagates the exception.
C10_TeardownOnEveryExit ==
    (run_pc = "done" /\ driver # "none") => quit_calls = 1

\* C23: a run that entered its try statement (the browser session exists)
\* ends only after every requested combination, in league-major order, has
\* finished its page loop and been handed to save_collected_links, and it
\* ends by returning.
C23_EveryCombinationCaptured ==
    (run_pc = "done" /\ quit_calls > 0) =>
        /\ outcome = "returned"
        /\ Len(saved) = Len(leagues) * Len(seasons)
        /\ \A k \in SavedCaptures :
            /\ saved[k].li = ((k - 1) \div Len(seasons)) + 1
            /\ saved[k].si = ((k - 1) % Len(seasons)) + 1

\* C25: the accumulation is empty when the page loop of a combination
\* begins, and the links saved for a combination were all harvested in the
\* page iterations of that combination.
C25_AccumulationPerCombination ==
    /\ (run_pc = "pages" /\ page_i = 1) => all_links = EmptyBag
    /\ \A k \in SavedCaptures : saved[k].links \subseteq saved[k].harvested

\* C25 witness: two combinations saved in one run, each with a link the
\* other did not harvest.
C25_Witness ==
    /\ Len(saved) = 2
    /\ saved[1].links # {} /\ saved[2].links # {}
    /\ saved[1].links \cap saved[2].links = {}
    /\ saved[1].li # saved[2].li

-----------------------------------------------------------------------------
(* The argument checks of capture_links_selenium and capture_links *)

\* the whitespace str.strip() removes
Whitespace == {" "}

\* item.strip()
RECURSIVE StripWhitespace(_)
StripWhitespace(s) ==
    IF s # <<>> /\ Head(s) \in Whitespace THEN StripWhitespace(Tail(s))
    ELSE IF s # <<>> /\ s[Len(s)] \in Whitespace
         THEN StripWhitespace(SubSeq(s, 1, Len(s) - 1))
    ELSE s

\* a variant that keeps the blank items
SplitCsvKeepBlank(raw) ==
    LET items == Split(raw, ",")
    IN  [i \in 1..Len(items) |-> StripWhitespace(items[i])]

\* [item.strip() for item in raw.split(",") if item.strip()]
_split_csv_argument(raw) ==
    LET items    == Split(raw, ",")
        stripped == [i \in 1..Len(items) |-> StripWhitespace(items[i])]
    IN  SelectSeq(stripped, LAMBDA item : item # <<>>)

EntryPoints == {"selenium", "playwright"}

RawChars == {",", " ", "a"}

RawArguments == SeqsUpTo(RawChars, MaxRawLen)

InitArgs ==
    /\ entry \in EntryPoints
    /\ raw_leagues \in RawArguments
    /\ raw_seasons \in RawArguments
    /\ args_pc = "check"
    /\ args_exc = "none"
    /\ effects = <<>>

IdleArgs ==
    /\ entry = "selenium"
    /\ raw_leagues = <<>>
    /\ raw_seasons = <<>>
    /\ args_pc = "idle"
    /\ args_exc = "none"
    /\ effects = <<>>

\* The two lists and their checks, the first statements of both entry
\* points: `if not leagues: raise ValueError`, `if not seasons: raise
\* ValueError`. capture_links then registers the markets and constructs its
\* collaborators, which starts no browser.
CheckLists ==
    /\ args_pc = "check"
    /\ LET leagues_ == _split_csv_argument(raw_leagues)
           seasons_ == _split_csv_argument(raw_seasons)
       IN  IF leagues_ = <<>> \/ seasons_ = <<>>
           THEN /\ args_exc' = "ValueError"
                /\ args_pc' = "done"
                /\ effects' = effects
           ELSE /\ args_exc' = args_exc
                /\ args_pc' = "session"
                /\ effects' = IF entry = "playwright"
                              THEN Append(effects, "register_markets")
                              ELSE effects
    /\ UNCHANGED <<entry, raw_leagues, raw_seasons>>
    /\ UNCHANGED othersOfArgs

\* build_driver(...) of capture_links_selenium, scraper.start_playwright(...)
\* of capture_links: the browser session is constructed, or the call raises.
StartSession ==
    /\ args_pc = "session"
    /\ \/ /\ effects' = Append(effects, "session")
          /\ args_pc' = "capture"
          /\ args_exc' = args_exc
       \/ /\ effects' = effects
          /\ args_pc' = "done"
          /\ args_exc' = "Exception"
    /\ UNCHANGED <<entry, raw_leagues, raw_seasons>>
    /\ UNCHANGED othersOfArgs

\* The try statement: the listing URL of the first combination is loaded;
\* the capture then writes its file, or ends without one.
CaptureFirst ==
    /\ args_pc = "capture"
    /\ \/ effects' = effects \o <<"load", "write">>
       \/ effects' = effects \o <<"load">>
    /\ args_pc' = "done"
    /\ UNCHANGED <<entry, raw_leagues, raw_seasons, args_exc>>
    /\ UNCHANGED othersOfArgs

NextArgs ==
    \/ CheckLists
    \/ StartSession
    \/ CaptureFirst

\* every item between the commas of raw is blank
OnlyBlankItems(raw) == \A i \in 1..Len(raw) : raw[i] \in {",", " "}

\* C11: when --leagues or --seasons holds only blank items, both entry points
\* raise ValueError and no browser session is constructed, no URL loaded and
\* no file written.
C11_EmptyListRaisesBeforeBrowser ==
    (OnlyBlankItems(raw_leagues) \/ OnlyBlankItems(raw_seasons)) =>
        /\ effects = <<>>
        /\ args_pc \in {"check", "done"}
        /\ args_pc = "done" => args_exc = "ValueError"

\* C11 witness: capture_links called with --leagues " , " and a season.
C11_Witness ==
    /\ entry = "playwright"
    /\ raw_leagues = <<" ", ",", " ">>
    /\ raw_seasons = <<"a">>
    /\ args_pc = "done"
    /\ args_exc = "ValueError"

-----------------------------------------------------------------------------
(* navigate_to_page *)

\* One iteration of the while loop. found: find_elements returned an anchor
\* whose stripped text is the target, and nothing raised before it was
\* reached; js_raises, native_raises, hash_raises: the two clicks and the
\* write of window.location.hash raise. The result holds what the iteration
\* did, whether it executed `return`, and the flag attempted_js_hash after it.
\* When both clicks raise, the exception of a.click() reaches the outer
\* `except Exception: pass` and the iteration goes on below it.
navigate_attempt(found, js_raises, native_raises, hash_raises, attempted) ==
    LET clicks ==
            IF ~found THEN <<>>
            ELSE IF ~js_raises THEN <<"found", "js_click">>
            ELSE IF ~native_raises
                 THEN <<"found", "js_click_raised", "native_click">>
            ELSE <<"found", "js_click_raised", "native_click_raised">>
        returned == found /\ (~js_raises \/ ~native_raises)
        hash ==
            IF returned \/ attempted THEN <<>>
            ELSE IF hash_raises THEN <<"hash_write_raised">>
            ELSE <<"hash_write">>
    IN  [events    |-> <<"search">> \o clicks \o hash,
         returned  |-> returned,
         attempted |-> attempted \/ (~returned /\ ~hash_raises)]

\* the page indices navigate_to_page is called with: page_number != 1
NavTargets == (0..MaxIndex) \ {1}

InitNavigate ==
    /\ target_page \in NavTargets
    /\ nav_pc = "loop"
    /\ nav_tries = 0
    /\ attempted_js_hash = FALSE
    /\ nav_events = <<>>

IdleNavigate ==
    /\ target_page = 0
    /\ nav_pc = "idle"
    /\ nav_tries = 0
    /\ attempted_js_hash = FALSE
    /\ nav_events = <<>>

\* One iteration of `while time.time() < end_time`, with time.sleep(0.3) at
\* its end.
NavigateAttempt ==
    /\ nav_pc = "loop"
    /\ nav_tries < MaxNavAttempts
    /\ \E found, js_raises, native_raises, hash_raises \in BOOLEAN :
        LET r == navigate_attempt(found, js_raises, native_raises, hash_raises,
                                  attempted_js_hash)
        IN  /\ nav_events' = nav_events \o r.events
            /\ attempted_js_hash' = r.attempted
            /\ nav_pc' = IF r.returned THEN "returned" ELSE "loop"
    /\ nav_tries' = nav_tries + 1
    /\ UNCHANGED target_page
    /\ UNCHANGED othersOfNavigate

\* The loop condition fails: end_time has passed and the function returns
\* None.
NavigateTimeout ==
    /\ nav_pc = "loop"
    /\ nav_tries = MaxNavAttempts
    /\ nav_pc' = "timed_out"
    /\ UNCHANGED <<target_page, nav_tries, attempted_js_hash, nav_events>>
    /\ UNCHANGED othersOfNavigate

NextNavigate ==
    \/ NavigateAttempt
    \/ NavigateTimeout

\* the positions of an event in the history of the call
PositionsOf(e) == {k \in 1..Len(nav_events) : nav_events[k] = e}

ClickEvents == {"js_click", "native_click", "js_click_raised", "native_click_raised"}

\* C18: once an anchor with the target's text is found, exactly one click is
\* dispatched on it (the native one only after the programmatic one raised)
\* and the call returns at once: after it no search, no click and no write
\* of the location fragment, so a call dispatches at most one click.
C18_OneClickThenReturn ==
    \A k \in PositionsOf("found") :
        /\ nav_pc = "returned"
        /\ SubSeq(nav_events, k + 1, Len(nav_events))
              \in {<<"js_click">>, <<"js_click_raised", "native_click">>}

\* C19: the location fragment is written only when no anchor with the
\* target's text was found during the whole attempt window, and at most
\* once: no call writes the fragment and afterwards clicks an anchor.
C19_FragmentOnlyAfterWindow ==
    /\ Cardinality(PositionsOf("hash_write")) <= 1
    /\ \A h \in PositionsOf("hash_write") :
        /\ PositionsOf("found") = {}
        /\ \A k \in (h + 1)..Len(nav_events) : nav_events[k] \notin ClickEvents

-----------------------------------------------------------------------------
(* dismiss_cookie_banner *)

\* the list `selectors`
ConsentSelectors == 1..5

\* What find_element gives for a selector: "raises" (no such element, an
\* invalid selector, or is_displayed raising), "hidden" (an element that is
\* not displayed), "displayed".
SelectorOutcomes == {"raises", "hidden", "displayed"}

\* a button element: whether its text contains one of the keywords
\* "accept", "agree", "consent", "ok", "got it", and whether reading the
\* text raises
Buttons == [keyword : BOOLEAN, text_raises : BOOLEAN]

\* what the queries of a call find: per selector its outcome; whether
\* find_elements(By.TAG_NAME, "button") raises, and the buttons; whether a
\* click raises
BannerDoms ==
    [selectors : [ConsentSelectors -> SelectorOutcomes],
     buttons_raise : BOOLEAN,
     buttons : SeqsUpTo(Buttons, MaxButtons),
     click_raises : BOOLEAN]

\* a variant that clicks the element found whether it is displayed or not
ClickedSelectorsAnyFound(d) ==
    SelectSeq([k \in ConsentSelectors |-> k],
              LAMBDA k : d.selectors[k] \in {"hidden", "displayed"})

\* the selectors whose element el.click() is called on, in order, as long as
\* the click raises: `if el.is_displayed(): el.click()`
ClickedSelectors(d) ==
    SelectSeq([k \in ConsentSelectors |-> k],
              LAMBDA k : d.selectors[k] = "displayed")

\* the buttons b.click() is called on, as long as the click raises
ClickedButtons(d) ==
    IF d.buttons_raise THEN <<>>
    ELSE SelectSeq(d.buttons, LAMBDA b : ~b.text_raises /\ b.keyword)

\* One iteration of the while loop: the clicks it makes and whether it
\* executed `return`. A click that raises is caught by the `except Exception:
\* continue` around it and the next candidate is tried.
dismiss_poll(d) ==
    LET sels == ClickedSelectors(d)
        btns == ClickedButtons(d)
    IN  IF d.click_raises
        THEN [events   |-> [k \in 1..Len(sels) |-> "selector_click_raised"]
                              \o [k \in 1..Len(btns) |-> "button_click_raised"],
              returned |-> FALSE]
        ELSE IF sels # <<>>
             THEN [events |-> <<"selector_click">>, returned |-> TRUE]
        ELSE IF btns # <<>>
             THEN [events |-> <<"button_click">>, returned |-> TRUE]
        ELSE [events |-> <<>>, returned |-> FALSE]

\* a variant that goes on to the next selector after a click
SelectorStepsAll(d) ==
    [k \in ConsentSelectors |->
        [step |-> "selector", at |-> k,
         clicked |-> d.selectors[k] = "displayed" /\ ~d.click_raises]]

\* The loop `for sel in selectors` of one iteration: one step per selector
\* queried, in the order of the list, up to the one whose click returned.
SelectorSteps(d) ==
    LET hit == {k \in ConsentSelectors :
                    d.selectors[k] = "displayed" /\ ~d.click_raises}
        last == IF hit = {} THEN Cardinality(ConsentSelectors) ELSE PyMin(hit)
    IN  [k \in 1..last |-> [step |-> "selector", at |-> k, clicked |-> k \in hit]]

\* The loop `for b in buttons`: one step per button, up to the one whose
\* click returned; none when find_elements raised.
ButtonSteps(d) ==
    LET hit == {i \in 1..Len(d.buttons) :
                    /\ ~d.buttons[i].text_raises /\ d.buttons[i].keyword
                    /\ ~d.click_raises}
        last == IF d.buttons_raise THEN 0
                ELSE IF hit = {} THEN Len(d.buttons) ELSE PyMin(hit)
    IN  [i \in 1..last |-> [step |-> "button", at |-> i, clicked |-> i \in hit]]

\* The body of the while loop, step by step: the selectors, and when the
\* loop over them ended without `return`, the query of the buttons ("scan")
\* and the buttons.
dismiss_round(d) ==
    LET sels == SelectorSteps(d)
    IN  IF \E k \in 1..Len(sels) : sels[k].clicked THEN sels
        ELSE sels \o <<[step |-> "scan", at |-> 0, clicked |-> FALSE]>>
                  \o ButtonSteps(d)

InitBanner ==
    /\ banner_dom \in BannerDoms
    /\ banner_pc = "loop"
    /\ banner_polls = 0
    /\ banner_events = <<>>
    /\ banner_rounds = <<>>

IdleBanner ==
    /\ banner_dom = [selectors |-> [k \in ConsentSelectors |-> "raises"],
                     buttons_raise |-> FALSE, buttons |-> <<>>,
                     click_raises |-> FALSE]
    /\ banner_pc = "idle"
    /\ banner_polls = 0
    /\ banner_events = <<>>
    /\ banner_rounds = <<>>

\* One iteration of `while time.time() < end_time`, with time.sleep(0.5) at
\* its end. No statement of it lets an exception out.
BannerPoll ==
    /\ banner_pc = "loop"
    /\ banner_polls < MaxBannerPolls
    /\ LET r == dismiss_poll(banner_dom)
       IN  /\ banner_events' = banner_events \o r.events
           /\ banner_pc' = IF r.returned THEN "returned" ELSE "loop"
    /\ banner_rounds' = Append(banner_rounds, dismiss_round(banner_dom))
    /\ banner_polls' = banner_polls + 1
    /\ UNCHANGED banner_dom
    /\ UNCHANGED othersOfBanner

\* The loop condition fails: the timeout has elapsed and the function
\* returns None.
BannerTimeout ==
    /\ banner_pc = "loop"
    /\ banner_polls = MaxBannerPolls
    /\ banner_pc' = "returned"
    /\ UNCHANGED <<banner_dom, banner_polls, banner_events, banner_rounds>>
    /\ UNCHANGED othersOfBanner

NextBanner ==
    \/ BannerPoll
    \/ BannerTimeout

\* no selector matches a displayed element and no button text holds a
\* consent keyword
NoConsentControl(d) ==
    /\ \A k \in ConsentSelectors : d.selectors[k] # "displayed"
    /\ \A i \in 1..Len(d.buttons) : ~d.buttons[i].keyword

\* C15: without a displayed consent element and without a button whose text
\* holds a consent keyword, dismiss_cookie_banner clicks nothing, raises
\* nothing (also when the element queries raise) and returns only when the
\* timeout has elapsed.
C15_NoBannerIsNoOp ==
    NoConsentControl(banner_dom) =>
        /\ banner_events = <<>>
        /\ banner_pc # "raised"
        /\ banner_pc = "returned" => banner_polls = MaxBannerPolls

\* C15 witness: a call returned after the timeout on a page whose consent
\* element is hidden, whose other selectors raise and whose only button has
\* another text.
C15_Witness ==
    /\ banner_pc = "returned"
    /\ banner_polls = MaxBannerPolls
    /\ banner_dom.selectors[1] = "hidden"
    /\ banner_dom.selectors[3] = "raises"
    /\ banner_dom.buttons = <<[keyword |-> FALSE, text_raises |-> FALSE]>>
    /\ ~banner_dom.buttons_raise
    /\ banner_events = <<>>

\* the steps of a round whose click returned
Clicks(round) == {k \in 1..Len(round) : round[k].clicked}

\* C26: a call of dismiss_cookie_banner makes at most one click that
\* returns, as the last step of its last iteration, and has returned after
\* it; in every iteration the selectors are gone through in the order of
\* the list, from the first, and the buttons are queried and scanned only
\* after all of them, when none of them gave such a click.
C26_OneClickSelectorsFirst ==
    \A r \in 1..Len(banner_rounds) :
        LET round == banner_rounds[r]
        IN  /\ Cardinality(Clicks(round)) <= 1
            /\ \A k \in Clicks(round) :
                /\ k = Len(round)
                /\ r = Len(banner_rounds)
                /\ banner_pc = "returned"
            /\ \A k \in 1..Len(round) :
                IF round[k].step = "selector" THEN round[k].at = k
                ELSE /\ k > Cardinality(ConsentSelectors)
                     /\ \A j \in 1..(k - 1) : ~round[j].clicked

\* C26 witness: a call returned in its first iteration after the click on a
\* button, reached after the five selectors, the first of which found a
\* hidden element.
C26_Witness ==
    /\ banner_pc = "returned"
    /\ Len(banner_rounds) = 1
    /\ Len(banner_rounds[1]) = Cardinality(ConsentSelectors) + 2
    /\ banner_rounds[1][Len(banner_rounds[1])].step = "button"
    /\ banner_rounds[1][Len(banner_rounds[1])].clicked
    /\ banner_dom.selectors[1] = "hidden"
    /\ banner_events = <<"button_click">>

-----------------------------------------------------------------------------
(* scroll_until_loaded *)

\* the argument max_scroll_attempts of the call of capture_links_selenium
max_scroll_attempts == 3

Heights == 1..MaxHeight

\* what find_elements(By.CSS_SELECTOR, content_selector) gives: elements, an
\* empty list, or an exception
ContentQueries == {"some", "none", "raises"}

\* a variant that stops on a stable height alone
ShouldBreakOnHeightAlone(seen, n) == n >= max_scroll_attempts

\* `if content_seen and attempts >= max_scroll_attempts: break`
ShouldBreak(seen, n) == seen /\ n >= max_scroll_attempts

\* The body of the while loop after the scroll and the pause, for the height
\* and the content query of the iteration: the locals after it and whether
\* `break` was executed.
scroll_iteration(last, n, seen, new_height, elems) ==
    LET seen_ == seen \/ elems = "some"
    IN  IF new_height = last
        THEN [last_height |-> last, attempts |-> n + 1, content_seen |-> seen_,
              break |-> ShouldBreak(seen_, n + 1)]
        ELSE [last_height |-> new_height, attempts |-> 0, content_seen |-> seen_,
              break |-> FALSE]

InitScroll ==
    /\ scroll_pc = "loop"
    /\ last_height \in Heights
    /\ attempts = 0
    /\ content_seen = FALSE
    /\ height_log = <<last_height>>
    /\ content_log = <<>>

IdleScroll ==
    /\ scroll_pc = "idle"
    /\ last_height = 1
    /\ attempts = 0
    /\ content_seen = FALSE
    /\ height_log = <<>>
    /\ content_log = <<>>

\* One iteration of `while time.time() < end_time`: the scroll, the pause,
\* the new height and the content query.
ScrollIteration ==
    /\ scroll_pc = "loop"
    /\ Len(content_log) < MaxScrollIters
    /\ \E new_height \in Heights, elems \in ContentQueries :
        LET r == scroll_iteration(last_height, attempts, content_seen,
                                  new_height, elems)
        IN  /\ last_height' = r.last_height
            /\ attempts' = r.attempts
            /\ content_seen' = r.content_seen
            /\ scroll_pc' = IF r.break THEN "break" ELSE "loop"
            /\ height_log' = Append(height_log, new_height)
            /\ content_log' = Append(content_log, elems)
    /\ UNCHANGED othersOfScroll

\* driver.execute_script raises in an iteration (the scroll or the read of
\* the height): the exception leaves the function.
ScrollRaises ==
    /\ scroll_pc = "loop"
    /\ Len(content_log) < MaxScrollIters
    /\ scroll_pc' = "raised"
    /\ UNCHANGED <<last_height, attempts, content_seen, height_log, content_log>>
    /\ UNCHANGED othersOfScroll

\* The loop condition fails: the timeout has elapsed and the function
\* returns True.
ScrollTimeout ==
    /\ scroll_pc = "loop"
    /\ Len(content_log) = MaxScrollIters
    /\ scroll_pc' = "timeout"
    /\ UNCHANGED <<last_height, attempts, content_seen, height_log, content_log>>
    /\ UNCHANGED othersOfScroll

NextScroll ==
    \/ ScrollIteration
    \/ ScrollRaises
    \/ ScrollTimeout

\* the last n + 1 heights read are equal: the height was unchanged over the
\* last n iterations
StableFor(n) ==
    /\ Len(height_log) >= n + 1
    /\ \A k \in (Len(height_log) - n)..Len(height_log) :
        height_log[k] = height_log[Len(height_log)]

\* C14: scroll_until_loaded stops before its timeout only when the height
\* has been unchanged for at least max_scroll_attempts consecutive
\* iterations and the content selector matched in some iteration of the
\* call.
C14_StopsOnlyWhenStableAndSeen ==
    scroll_pc = "break" =>
        /\ StableFor(max_scroll_attempts)
        /\ \E k \in 1..Len(content_log) : content_log[k] = "some"

\* C14 witness: the height changed in the first iteration, the content
\* query raised in the last, and the loop stopped after three stable
\* iterations.
C14_Witness ==
    /\ scroll_pc = "break"
    /\ Len(height_log) = 5
    /\ height_log[1] # height_log[2]
    /\ content_log[4] = "raises"

-----------------------------------------------------------------------------
(* The page loop of capture_links_selenium, stage by stage *)

\* None, as a signature
NoSig == -1

\* no page index: the empty location fragment, no navigation under way
NoPage == -1

\* a rendered listing page: its page index and whether it has event rows
Views == [page : 0..MaxIndex, rows : BOOLEAN]

\* the href get_first_event_signature finds on a rendered page, named by the
\* page index; None without event rows
Signature(view) == IF view.rows THEN view.page ELSE NoSig

\* what get_first_event_signature returns: None also when its query raises
SignatureReads(view) == {Signature(view), NoSig}

\* extract_match_links_from_html(html): the match links of the rows of the
\* page, named by the page index
RenderedLinks(view) == IF view.rows THEN {<<view.page>>} ELSE {}

\* a variant that fetches the markup right after the navigation
StagesFetchBeforePolls(p) ==
    IF p # 1
    THEN <<"rows0", "prev_sig", "navigate", "fetch", "hash", "rows", "sig",
           "settle", "scroll", "extract", "end">>
    ELSE <<"rows0", "prev_sig", "settle", "scroll", "fetch", "extract", "end">>

\* The statements of the try body of one iteration, in order, for page
\* number p: the wait for the rows, prev_sig, under `if page_number != 1` the
\* navigation and the three waits, then the settle delay, the scroll, the
\* markup and the extraction.
Stages(p) ==
    IF p # 1
    THEN <<"rows0", "prev_sig", "navigate", "hash", "rows", "sig",
           "settle", "scroll", "fetch", "extract", "end">>
    ELSE <<"rows0", "prev_sig", "settle", "scroll", "fetch", "extract", "end">>

\* the statement that follows stage st
NextStage(st, p) ==
    LET ss == Stages(p)
        k  == CHOOSE j \in 1..Len(ss) : ss[j] = st
    IN  ss[k + 1]

\* a variant that gives the page up when a wait times out
StageAfterTimeoutSkip(st, p) == "end"

\* where the iteration goes on when a wait returns False or its loop ends:
\* the result is ignored
StageAfterTimeout(st, p) == NextStage(st, p)

\* a variant that takes any signature other than prev_sig, None too
SigConfirmedAnyDifference(cur, prev) == cur # prev

\* `if cur_sig and cur_sig != prev_sig: break`
SigConfirmed(cur, prev) == cur # NoSig /\ cur # prev

\* the page number of the current iteration
page_number == pages_to_scrape[page_i]

\* what a wait polls for: wait_for_hash the fragment of the page number,
\* wait_for_event_rows a row
Satisfied(st) ==
    IF st = "hash" THEN loc = page_number ELSE shown.rows

\* the lists get_pagination_pages may give
PageListsAll == UNION {PageLists[mp] : mp \in MaxPagesArgs}

InitPage ==
    /\ pg_pc = "begin"
    /\ pg_polls = 0
    /\ prev_sig = NoSig
    /\ loc = NoPage
    /\ shown \in {v \in Views : v.page = 1}
    /\ pending = NoPage
    /\ initial_view = [loc |-> loc, shown |-> shown]
    /\ page_html = <<>>
    /\ pg_events = <<>>
    /\ pg_timeouts = {}
    /\ page_log = <<>>
    /\ sig_obs = <<>>
    /\ sig_changed = FALSE
    /\ pages_to_scrape \in PageListsAll
    /\ page_i = 1
    /\ all_links = EmptyBag
    /\ visited = <<>>

IdlePage ==
    /\ pg_pc = "idle"
    /\ pg_polls = 0
    /\ prev_sig = NoSig
    /\ loc = NoPage
    /\ shown = [page |-> 1, rows |-> FALSE]
    /\ pending = NoPage
    /\ initial_view = [loc |-> NoPage, shown |-> [page |-> 1, rows |-> FALSE]]
    /\ page_html = <<>>
    /\ pg_events = <<>>
    /\ pg_timeouts = {}
    /\ page_log = <<>>
    /\ sig_obs = <<>>
    /\ sig_changed = FALSE

\* the variables of the run the page loop leaves at rest
IdleRunOfPage ==
    /\ run_pc = "idle"
    /\ leagues = <<>>
    /\ seasons = <<>>
    /\ li = 1
    /\ si = 1
    /\ driver = "none"
    /\ quit_calls = 0
    /\ outcome = "running"
    /\ base_url = <<>>
    /\ log = {}
    /\ harvested = {}
    /\ saved = <<>>

\* stage st ends and the statement nxt runs next
EndStage(st, nxt) ==
    /\ pg_events' = Append(pg_events, st)
    /\ pg_pc' = nxt
    /\ pg_polls' = 0

\* The for statement takes the next page number, or the loop is over; the
\* try body begins with logger.info("... Navigating to page ..."), the
\* record "navigating"; the record of logger.error is "error".
BeginPage ==
    /\ pg_pc = "begin"
    /\ IF page_i <= Len(pages_to_scrape)
       THEN /\ visited' = Append(visited, page_number)
            /\ page_log' = <<"navigating">>
            /\ pg_pc' = "rows0"
       ELSE /\ pg_pc' = "done"
            /\ UNCHANGED <<visited, page_log>>
    /\ UNCHANGED <<pg_polls, prev_sig, loc, shown, pending, initial_view,
                   page_html, pg_events, pg_timeouts, sig_obs, sig_changed,
                   pages_to_scrape, page_i, all_links, nav_tries,
                   attempted_js_hash>>
    /\ UNCHANGED othersOfPage

\* One poll of wait_for_event_rows (before prev_sig and after the
\* navigation) or of wait_for_hash: the wait returns True, or sleeps; a query
\* that raises counts as a miss.
WaitPoll(st) ==
    /\ pg_pc = st
    /\ pg_polls < MaxPolls
    /\ \E ok \in {Satisfied(st), FALSE} :
        IF ok THEN EndStage(st, NextStage(st, page_number))
        ELSE /\ pg_polls' = pg_polls + 1
             /\ UNCHANGED <<pg_pc, pg_events>>
    /\ UNCHANGED <<prev_sig, loc, shown, pending, initial_view, page_html,
                   pg_timeouts, page_log, sig_obs, sig_changed,
                   pages_to_scrape, page_i, all_links, visited, nav_tries,
                   attempted_js_hash>>
    /\ UNCHANGED othersOfPage

\* The timeout of such a wait: it returns False, which the caller ignores.
WaitTimeout(st) ==
    /\ pg_pc = st
    /\ pg_polls = MaxPolls
    /\ EndStage(st, StageAfterTimeout(st, page_number))
    /\ pg_timeouts' = IF st = "rows0" THEN pg_timeouts ELSE pg_timeouts \cup {st}
    /\ UNCHANGED <<prev_sig, loc, shown, pending, initial_view, page_html,
                   page_log, sig_obs, sig_changed, pages_to_scrape, page_i,
                   all_links, visited, nav_tries, attempted_js_hash>>
    /\ UNCHANGED othersOfPage

\* prev_sig = get_first_event_signature(driver)
ReadPrevSig ==
    /\ pg_pc = "prev_sig"
    /\ prev_sig' \in SignatureReads(shown)
    /\ EndStage("prev_sig", NextStage("prev_sig", page_number))
    /\ UNCHANGED <<loc, shown, pending, initial_view, page_html, pg_timeouts,
                   page_log, sig_obs, sig_changed, pages_to_scrape, page_i,
                   all_links, visited, nav_tries, attempted_js_hash>>
    /\ UNCHANGED othersOfPage

\* One iteration of the loop of navigate_to_page(driver, page_number): a
\* click that does not raise starts the navigation to the page; a write of
\* the fragment sets the location, and the router of the site reacts to it or
\* not.
PageNavigateAttempt ==
    /\ pg_pc = "navigate"
    /\ nav_tries < MaxNavAttempts
    /\ \E found, js_raises, native_raises, hash_raises \in BOOLEAN :
        LET r == navigate_attempt(found, js_raises, native_raises, hash_raises,
                                  attempted_js_hash)
            clicked == \E k \in 1..Len(r.events) :
                            r.events[k] \in {"js_click", "native_click"}
            hashed  == \E k \in 1..Len(r.events) : r.events[k] = "hash_write"
        IN  /\ loc' = IF hashed THEN page_number ELSE loc
            /\ pending' \in IF clicked THEN {page_number}
                            ELSE IF hashed THEN {page_number, pending}
                            ELSE {pending}
            /\ IF r.returned
               THEN /\ EndStage("navigate", NextStage("navigate", page_number))
                    /\ nav_tries' = 0
                    /\ attempted_js_hash' = FALSE
               ELSE /\ nav_tries' = nav_tries + 1
                    /\ attempted_js_hash' = r.attempted
                    /\ UNCHANGED <<pg_pc, pg_events, pg_polls>>
    /\ UNCHANGED <<prev_sig, shown, initial_view, page_html, pg_timeouts,
                   page_log, sig_obs, sig_changed, pages_to_scrape, page_i,
                   all_links, visited>>
    /\ UNCHANGED othersOfPage

\* The attempt window of navigate_to_page is over: it returns None.
PageNavigateTimeout ==
    /\ pg_pc = "navigate"
    /\ nav_tries = MaxNavAttempts
    /\ EndStage("navigate", StageAfterTimeout("navigate", page_number))
    /\ pg_timeouts' = pg_timeouts \cup {"navigate"}
    /\ nav_tries' = 0
    /\ attempted_js_hash' = FALSE
    /\ UNCHANGED <<prev_sig, loc, shown, pending, initial_view, page_html,
                   page_log, sig_obs, sig_changed, pages_to_scrape, page_i,
                   all_links, visited>>
    /\ UNCHANGED othersOfPage

\* One iteration of `while time.time() < sig_deadline`: the signature is
\* read, and the loop breaks or sleeps.
SigPoll ==
    /\ pg_pc = "sig"
    /\ pg_polls < MaxPolls
    /\ \E cur_sig \in SignatureReads(shown) :
        /\ sig_obs' = Append(sig_obs, cur_sig)
        /\ IF SigConfirmed(cur_sig, prev_sig)
           THEN EndStage("sig", NextStage("sig", page_number))
           ELSE /\ pg_polls' = pg_polls + 1
                /\ UNCHANGED <<pg_pc, pg_events>>
    /\ UNCHANGED <<prev_sig, loc, shown, pending, initial_view, page_html,
                   pg_timeouts, page_log, sig_changed, pages_to_scrape, page_i,
                   all_links, visited, nav_tries, attempted_js_hash>>
    /\ UNCHANGED othersOfPage

\* time.sleep(random.randint(6, 8))
Settle ==
    /\ pg_pc = "settle"
    /\ EndStage("settle", NextStage("settle", page_number))
    /\ UNCHANGED <<prev_sig, loc, shown, pending, initial_view, page_html,
                   pg_timeouts, page_log, sig_obs, sig_changed,
                   pages_to_scrape, page_i, all_links, visited, nav_tries,
                   attempted_js_hash>>
    /\ UNCHANGED othersOfPage

\* scroll_until_loaded(...) returns, or raises; html = driver.page_source
\* returns the rendered markup, or raises. An exception is caught by `except
\* Exception`, logged with logger.error, and the iteration is over.
ScrollOrFetch(st) ==
    /\ pg_pc = st
    /\ \/ /\ EndStage(st, NextStage(st, page_number))
          /\ page_html' = IF st = "fetch" THEN <<shown>> ELSE page_html
          /\ page_log' = page_log
       \/ /\ pg_events' = Append(pg_events, "raised")
          /\ pg_pc' = "end"
          /\ pg_polls' = 0
          /\ page_log' = Append(page_log, "error")
          /\ page_html' = page_html
    /\ UNCHANGED <<prev_sig, loc, shown, pending, initial_view, pg_timeouts,
                   sig_obs, sig_changed, pages_to_scrape, page_i, all_links,
                   visited, nav_tries, attempted_js_hash>>
    /\ UNCHANGED othersOfPage

\* links = extract_match_links_from_html(html); all_links.extend(links)
ExtractAndExtend ==
    /\ pg_pc = "extract"
    /\ all_links' = ExtendLinks(all_links, RenderedLinks(page_html[1]))
    /\ EndStage("extract", NextStage("extract", page_number))
    /\ UNCHANGED <<prev_sig, loc, shown, pending, initial_view, page_html,
                   pg_timeouts, page_log, sig_obs, sig_changed,
                   pages_to_scrape, page_i, visited, nav_tries,
                   attempted_js_hash>>
    /\ UNCHANGED othersOfPage

\* The iteration is over: its locals and its history are dropped.
NextPage ==
    /\ pg_pc = "end"
    /\ page_i' = page_i + 1
    /\ pg_pc' = "begin"
    /\ pg_polls' = 0
    /\ prev_sig' = NoSig
    /\ page_html' = <<>>
    /\ pg_events' = <<>>
    /\ pg_timeouts' = {}
    /\ page_log' = <<>>
    /\ sig_obs' = <<>>
    /\ sig_changed' = FALSE
    /\ UNCHANGED <<loc, shown, pending, initial_view, pages_to_scrape,
                   all_links, visited, nav_tries, attempted_js_hash>>
    /\ UNCHANGED othersOfPage

\* The browser: the navigation under way renders its page, with or without
\* event rows, and the location becomes that of the page.
Render ==
    /\ pg_pc \notin {"idle", "begin", "end", "done"}
    /\ pending # NoPage
    /\ \E rows \in BOOLEAN : shown' = [page |-> pending, rows |-> rows]
    /\ loc' = pending
    /\ pending' = NoPage
    /\ sig_changed' =
        (sig_changed \/ (/\ pg_pc = "sig"
                         /\ Signature(shown) = prev_sig
                         /\ Signature(shown') \notin {NoSig, prev_sig}))
    /\ UNCHANGED <<pg_pc, pg_polls, prev_sig, initial_view, page_html,
                   pg_events, pg_timeouts, page_log, sig_obs,
                   pages_to_scrape, page_i, all_links, visited, nav_tries,
                   attempted_js_hash>>
    /\ UNCHANGED othersOfPage

NextPageLoop ==
    \/ BeginPage
    \/ \E st \in {"rows0", "hash", "rows"} : WaitPoll(st)
    \/ \E st \in {"rows0", "hash", "rows", "sig"} : WaitTimeout(st)
    \/ ReadPrevSig
    \/ PageNavigateAttempt
    \/ PageNavigateTimeout
    \/ SigPoll
    \/ Settle
    \/ \E st \in {"scroll", "fetch"} : ScrollOrFetch(st)
    \/ ExtractAndExtend
    \/ NextPage
    \/ Render

-----------------------------------------------------------------------------
(* Properties of the page loop, checked under SpecPage *)

\* an iteration of the page loop is under way
InIteration == pg_pc \notin {"idle", "begin", "done"}

EventsSet == Range(pg_events)

NavigationEvents == {"navigate", "hash", "rows", "sig"}

\* s is an initial part of t
IsPrefix(s, t) == Len(s) <= Len(t) /\ s = SubSeq(t, 1, Len(s))

\* the events of the iteration before an exception ended it
EventsBeforeRaise ==
    IF pg_events # <<>> /\ pg_events[Len(pg_events)] = "raised"
    THEN SubSeq(pg_events, 1, Len(pg_events) - 1)
    ELSE pg_events

\* C12: for page index 1 no navigation action and none of the three waits
\* happens, and when the markup is about to be fetched the location and the
\* rendered page are those the initial load left.
C12_PageOneUntouched ==
    (InIteration /\ page_number = 1) =>
        /\ EventsSet \cap NavigationEvents = {}
        /\ pg_pc = "fetch" =>
            /\ loc = initial_view.loc
            /\ shown = initial_view.shown

\* C13: a wait or an attempt window that ends by timeout raises nothing and
\* skips nothing: the iteration goes on to the settle delay and the scroll,
\* and unless the scroll or the fetch raises, the links of the markup
\* rendered at the fetch are added to the links of the season.
C13_TimeoutSkipsNothing ==
    InIteration =>
        /\ "error" \in Range(page_log) =>
            /\ Len(pg_events) >= 2
            /\ pg_events[Len(pg_events)] = "raised"
            /\ pg_events[Len(pg_events) - 1] \in {"settle", "scroll"}
        /\ (pg_timeouts # {} /\ pg_pc = "end") =>
            \/ pg_events[Len(pg_events)] = "raised"
            \/ /\ Len(pg_events) >= 4
               /\ SubSeq(pg_events, Len(pg_events) - 3, Len(pg_events))
                    = <<"settle", "scroll", "fetch", "extract">>
               /\ page_html # <<>>
               /\ \A l \in RenderedLinks(page_html[1]) : l \in BagToSet(all_links)

\* C13 witness: the signature wait of page 2 timed out, and the iteration
\* harvested the markup of page 1 a second time.
C13_Witness ==
    /\ pg_pc = "end"
    /\ page_number = 2
    /\ "sig" \in pg_timeouts
    /\ page_html = <<[page |-> 1, rows |-> TRUE]>>
    /\ CopiesIn(<<1>>, all_links) = 2

\* the order of the events of an iteration with a navigation
NavigatedOrder ==
    <<"rows0", "prev_sig", "navigate", "hash", "rows", "sig", "settle",
      "scroll", "fetch", "extract">>

\* C16: the page indices are visited in ascending order, each once; in an
\* iteration for an index other than 1 the events follow the order prev_sig,
\* navigation, fragment wait, rows wait, signature wait, settle delay,
\* scroll, fetch, extraction, and the markup is never fetched before the
\* three waits have ended.
C16_OrderOfStages ==
    /\ StrictlyAscending(visited)
    /\ IsPrefix(visited, pages_to_scrape)
    /\ pg_pc = "done" => visited = pages_to_scrape
    /\ (InIteration /\ page_number # 1) =>
        /\ IsPrefix(EventsBeforeRaise, NavigatedOrder)
        /\ page_html # <<>> => {"hash", "rows", "sig"} \subseteq EventsSet

\* C16 witness: the third of three pages, with all its stages done.
C16_Witness ==
    /\ pg_pc = "end"
    /\ visited = <<0, 1, 2>>
    /\ pg_events = NavigatedOrder

\* the signature wait of the iteration has ended
SigStageEnded == "sig" \in EventsSet

\* a signature that is no change: None or prev_sig
NoChange(sig) == sig = NoSig \/ sig = prev_sig

\* C17, first part: the signature wait ends before its timeout only on a
\* signature read that is not None and differs from prev_sig, which was read
\* in the same iteration before the navigation.
SigEndsEarlyOnlyOnChange ==
    (InIteration /\ SigStageEnded /\ "sig" \notin pg_timeouts) =>
        /\ sig_obs # <<>>
        /\ ~NoChange(sig_obs[Len(sig_obs)])
        /\ IsPrefix(<<"rows0", "prev_sig", "navigate">>, pg_events)

\* C17: the first part, and: when the rendered signature changes from
\* prev_sig to a new one before the timeout of the wait, the wait ends as
\* confirmed.
C17_ChangeBeforeTimeoutConfirms ==
    /\ SigEndsEarlyOnlyOnChange
    /\ (InIteration /\ SigStageEnded /\ sig_changed) => "sig" \notin pg_timeouts

\* C17, amended: the first part, and: a poll of the wait that reads a
\* signature that is not None and differs from prev_sig ends the wait as
\* confirmed, and the markup is fetched after it; a change no poll reads
\* leaves the wait to its timeout.
C17_ObservedChangeConfirms ==
    /\ SigEndsEarlyOnlyOnChange
    /\ InIteration =>
        /\ \A k \in 1..(Len(sig_obs) - 1) : NoChange(sig_obs[k])
        /\ "sig" \in pg_timeouts => \A k \in 1..Len(sig_obs) : NoChange(sig_obs[k])
        /\ (pg_pc = "sig" /\ sig_obs # <<>>) => NoChange(sig_obs[Len(sig_obs)])
        /\ (page_html # <<>> /\ page_number # 1) => SigStageEnded

\* C17 witness: for page 2 the signature of page 1 was read before the
\* navigation, the second poll read the signature of page 2, and the markup
\* of page 2 was harvested.
C17_Witness ==
    /\ pg_pc = "end"
    /\ page_number = 2
    /\ prev_sig = 1
    /\ sig_obs = <<1, 2>>
    /\ "sig" \notin pg_timeouts
    /\ page_html = <<[page |-> 2, rows |-> TRUE]>>

\* C20: when one of the waits after a navigation ended by timeout, a log
\* record of the degraded condition is emitted before the markup is fetched.
C20_DegradedIsLogged ==
    (InIteration /\ page_html # <<>> /\ pg_timeouts \cap {"hash", "rows", "sig"} # {}) =>
        \E k \in 1..Len(page_log) : page_log[k] \notin {"navigating", "error"}

-----------------------------------------------------------------------------
(* The bounded waits, against the clock *)

\* the waits of capture_links_selenium; "signature_poll" is the loop on
\* sig_deadline inside the page loop
WaitKinds ==
    {"dismiss_cookie_banner", "wait_for_hash", "wait_for_event_rows",
     "navigate_to_page", "signature_poll", "scroll_until_loaded",
     "wait_dom_loaded"}

\* the loops of the shape `while time.time() < end_time: ...; time.sleep(p)`
PollingWaits ==
    {"dismiss_cookie_banner", "wait_for_hash", "wait_for_event_rows",
     "navigate_to_page", "signature_poll"}

\* the timeout capture_links_selenium gives each wait, in tenths of a second
WaitDeadline(kind) ==
    CASE kind = "dismiss_cookie_banner" -> 80
      [] kind = "wait_for_hash" -> 80
      [] kind = "wait_for_event_rows" -> 100
      [] kind = "navigate_to_page" -> 120
      [] kind = "signature_poll" -> 100
      [] kind = "scroll_until_loaded" -> 300
      [] kind = "wait_dom_loaded" -> 200

\* a variant whose pause takes no time
WaitPauseNone(kind) == 0

\* the time.sleep at the end of an iteration, in tenths of a second; for
\* wait_dom_loaded the poll frequency of WebDriverWait
WaitPause(kind) ==
    CASE kind = "dismiss_cookie_banner" -> 5
      [] kind = "wait_for_hash" -> 2
      [] kind = "wait_for_event_rows" -> 3
      [] kind = "navigate_to_page" -> 3
      [] kind = "signature_poll" -> 3
      [] kind = "wait_dom_loaded" -> 5

\* the argument scroll_pause_time of the call of capture_links_selenium, in
\* tenths of a second
scroll_pause_time == 20

\* document.readyState, or the exception of execute_script
ReadyStates == {"loading", "interactive", "complete", "raises"}

\* Whether the body of an iteration ends the wait (`return`, `break`), over
\* what the page can show in the iteration.
BodyOutcomes(kind) ==
    CASE kind = "dismiss_cookie_banner" ->
            {dismiss_poll(d).returned : d \in BannerDoms}
      [] kind = "wait_for_hash" ->
            {current = expected :
                current \in (0..MaxIndex) \cup {NoPage}, expected \in NavTargets}
      [] kind = "wait_for_event_rows" -> {elems = "some" : elems \in ContentQueries}
      [] kind = "navigate_to_page" ->
            {navigate_attempt(f, j, n, h, a).returned : f, j, n, h, a \in BOOLEAN}
      [] kind = "signature_poll" ->
            {SigConfirmed(cur, prev) :
                cur \in (0..MaxIndex) \cup {NoSig}, prev \in (0..MaxIndex) \cup {NoSig}}

\* what a wait returns when its body ends it
FoundResult(kind) ==
    IF kind \in {"wait_for_hash", "wait_for_event_rows", "scroll_until_loaded"}
    THEN "True" ELSE "None"

\* what a wait returns when its loop condition fails
ExpiredResult(kind) ==
    CASE kind \in {"wait_for_hash", "wait_for_event_rows"} -> "False"
      [] kind = "scroll_until_loaded" -> "True"
      [] OTHER -> "None"

InitWaits ==
    /\ w_kind \in WaitKinds
    /\ w_pc = "loop"
    /\ w_clock = 0
    /\ w_result = "unset"
    /\ w_expired = FALSE
    /\ w_last_height \in IF w_kind = "scroll_until_loaded" THEN Heights ELSE {1}
    /\ w_attempts = 0
    /\ w_seen = FALSE
    /\ w_steady = FALSE

IdleWaits ==
    /\ w_kind = "none"
    /\ w_pc = "idle"
    /\ w_clock = 0
    /\ w_result = "unset"
    /\ w_expired = FALSE
    /\ w_last_height = 1
    /\ w_attempts = 0
    /\ w_seen = FALSE
    /\ w_steady = FALSE

\* The body of an iteration of a polling loop, entered while the deadline
\* has not passed. Its driver calls take some time; exceptions are caught
\* inside the body.
PollBody ==
    /\ w_kind \in PollingWaits
    /\ w_pc = "loop"
    /\ w_clock < WaitDeadline(w_kind)
    /\ \E took \in 0..MaxCallTicks, ends \in BodyOutcomes(w_kind) :
        /\ w_clock' = w_clock + took
        /\ w_pc' = IF ends THEN "returned" ELSE "sleep"
        /\ w_result' = IF ends THEN FoundResult(w_kind) ELSE w_result
    /\ UNCHANGED <<w_kind, w_expired, w_last_height, w_attempts, w_seen, w_steady>>
    /\ UNCHANGED othersOfWaits

\* time.sleep at the end of an iteration
PollPause ==
    /\ w_pc = "sleep"
    /\ w_clock' = w_clock + WaitPause(w_kind)
    /\ w_pc' = "loop"
    /\ UNCHANGED <<w_kind, w_result, w_expired, w_last_height, w_attempts,
                   w_seen, w_steady>>
    /\ UNCHANGED othersOfWaits

\* The loop condition `time.time() < end_time` fails and the function
\* returns.
PollExpire ==
    /\ w_kind \in PollingWaits \cup {"scroll_until_loaded"}
    /\ w_pc = "loop"
    /\ w_clock >= WaitDeadline(w_kind)
    /\ w_pc' = "returned"
    /\ w_result' = ExpiredResult(w_kind)
    /\ w_expired' = TRUE
    /\ UNCHANGED <<w_kind, w_clock, w_last_height, w_attempts, w_seen, w_steady>>
    /\ UNCHANGED othersOfWaits

\* An iteration of scroll_until_loaded: the scroll, time.sleep of
\* scroll_pause_time, the read of the height and the content query. An
\* exception of execute_script leaves the function.
ScrollBody ==
    /\ w_kind = "scroll_until_loaded"
    /\ w_pc = "loop"
    /\ w_clock < WaitDeadline(w_kind)
    /\ \/ /\ w_pc' = "raised"
          /\ w_result' = "WebDriverException"
          /\ UNCHANGED <<w_clock, w_last_height, w_attempts, w_seen, w_steady>>
       \/ \E took \in 0..MaxCallTicks, new_height \in Heights,
             elems \in ContentQueries :
            LET r == scroll_iteration(w_last_height, w_attempts, w_seen,
                                      new_height, elems)
            IN  /\ w_clock' = w_clock + took + scroll_pause_time
                /\ w_last_height' = r.last_height
                /\ w_attempts' = r.attempts
                /\ w_seen' = r.content_seen
                /\ w_steady' = (w_steady \/ new_height = w_last_height)
                /\ w_pc' = IF r.break THEN "returned" ELSE "loop"
                /\ w_result' = IF r.break THEN FoundResult(w_kind) ELSE w_result
    /\ UNCHANGED <<w_kind, w_expired>>
    /\ UNCHANGED othersOfWaits

\* An iteration of WebDriverWait(driver, timeout).until(...): the condition
\* is evaluated first; a truthy value ends the wait and wait_dom_loaded
\* returns None; an exception of execute_script propagates; otherwise, with
\* the deadline passed, until raises TimeoutException, which wait_dom_loaded
\* does not catch.
DomBody ==
    /\ w_kind = "wait_dom_loaded"
    /\ w_pc = "loop"
    /\ \E took \in 0..MaxCallTicks, state \in ReadyStates :
        /\ w_clock' = w_clock + took
        /\ IF state \in {"interactive", "complete"}
           THEN w_pc' = "returned" /\ w_result' = "None" /\ w_expired' = FALSE
           ELSE IF state = "raises"
           THEN w_pc' = "raised" /\ w_result' = "WebDriverException"
                /\ w_expired' = FALSE
           ELSE IF w_clock' > WaitDeadline(w_kind)
           THEN w_pc' = "raised" /\ w_result' = "TimeoutException"
                /\ w_expired' = TRUE
           ELSE w_pc' = "sleep" /\ w_result' = w_result /\ w_expired' = FALSE
    /\ UNCHANGED <<w_kind, w_last_height, w_attempts, w_seen, w_steady>>
    /\ UNCHANGED othersOfWaits

NextWaits ==
    \/ PollBody
    \/ PollPause
    \/ PollExpire
    \/ ScrollBody
    \/ DomBody

-----------------------------------------------------------------------------
(* Properties of the waits, checked under SpecWaits and SpecWaitsFair *)

WaitEnded == w_pc \in {"returned", "raised"}

\* C21: when its timeout elapses without the condition being met, each of
\* wait_dom_loaded and wait_for_event_rows ends by returning the boolean
\* False, never by raising.
C21_TimeoutIsBooleanResult ==
    (w_kind \in {"wait_dom_loaded", "wait_for_event_rows"} /\ w_expired) =>
        /\ w_pc = "returned"
        /\ w_result = "False"

\* the waits C24 names
BoundedWaits == PollingWaits \cup {"scroll_until_loaded"}

\* no iteration of a wait begins with its deadline passed: the time at the
\* pause is that of the body's start plus the time its driver calls took
BodyBeganBeforeDeadline ==
    (w_kind \in PollingWaits /\ w_pc = "sleep") =>
        w_clock - MaxCallTicks < WaitDeadline(w_kind)

\* C24: each of dismiss_cookie_banner, wait_for_hash, wait_for_event_rows,
\* navigate_to_page, the signature poll and scroll_until_loaded begins no
\* iteration after its deadline and eventually ends, whatever the page
\* shows; scroll_until_loaded too when the height changes in every
\* iteration or the content is never seen.
C24_EveryWaitTerminates ==
    /\ []BodyBeganBeforeDeadline
    /\ (w_kind \in BoundedWaits) ~> WaitEnded

\* C24 witness: scroll_until_loaded ended by its timeout after iterations in
\* each of which the height changed, without the content ever being seen.
C24_Witness ==
    /\ w_kind = "scroll_until_loaded"
    /\ w_pc = "returned"
    /\ w_expired
    /\ ~w_steady
    /\ ~w_seen
    /\ w_clock >= WaitDeadline(w_kind)

-----------------------------------------------------------------------------
(* The replay of a written file: csv.writer in save_collected_links, then
   csv.DictReader and the loader of parse_and_validate_args *)

\* the characters of the links given to save_collected_links
ReplayChars == {"a", " ", ",", "\""}

ReplayLinkLists ==
    SeqsUpTo(SeqsUpTo(ReplayChars, MaxReplayLen), MaxReplayLinks)

\* csv.field_size_limit(), the longest field the reader accepts
field_size_limit == 131072

\* a variant that never quotes
NeedsQuotesNever(field) == FALSE

\* QUOTE_MINIMAL: a field is quoted when it holds the delimiter, the quote
\* character or a character of the line terminator; the only field of a row
\* also when it is empty
NeedsQuotes(field) ==
    \/ field = <<>>
    \/ \E i \in 1..Len(field) : field[i] \in {",", "\"", "\r", "\n"}

\* the quote character doubled inside a quoted field
RECURSIVE DoubleQuotes(_)
DoubleQuotes(field) ==
    IF field = <<>> THEN <<>>
    ELSE (IF Head(field) = "\"" THEN <<"\"", "\"">> ELSE <<Head(field)>>)
            \o DoubleQuotes(Tail(field))

\* writer.writerow([field]): the characters written
csv_writerow(field) ==
    (IF NeedsQuotes(field) THEN <<"\"">> \o DoubleQuotes(field) \o <<"\"">>
     ELSE field) \o <<"\r", "\n">>

\* the text of a file of one-field rows
RECURSIVE CsvText(_)
CsvText(rows) ==
    IF rows = <<>> THEN <<>> ELSE csv_writerow(Head(rows)) \o CsvText(Tail(rows))

\* csv.reader over a file opened with newline="": the rows of the text, each
\* a list of fields. state is the state of the parser, field and row what it
\* has collected of the current field and row.
RECURSIVE csv_reader(_, _, _, _, _)
csv_reader(text, state, field, row, rows) ==
    IF text = <<>>
    THEN IF state \in {"start_record", "eat_lf"} THEN rows
         ELSE Append(rows, Append(row, field))
    ELSE LET c == Head(text)
             rest == Tail(text)
             newline == c \in {"\r", "\n"}
             after == IF c = "\r" THEN "eat_lf" ELSE "start_record"
         IN  CASE state = "eat_lf" ->
                    IF c = "\n" THEN csv_reader(rest, "start_record", <<>>, <<>>, rows)
                    ELSE csv_reader(text, "start_record", <<>>, <<>>, rows)
               [] state = "start_record" ->
                    IF newline
                    THEN csv_reader(rest, after, <<>>, <<>>, Append(rows, <<>>))
                    ELSE csv_reader(text, "start_field", <<>>, <<>>, rows)
               [] state = "start_field" ->
                    IF newline
                    THEN csv_reader(rest, after, <<>>, <<>>,
                                    Append(rows, Append(row, <<>>)))
                    ELSE IF c = "\""
                    THEN csv_reader(rest, "in_quoted", <<>>, row, rows)
                    ELSE IF c = ","
                    THEN csv_reader(rest, "start_field", <<>>, Append(row, <<>>), rows)
                    ELSE csv_reader(rest, "in_field", <<c>>, row, rows)
               [] state = "in_field" ->
                    IF newline
                    THEN csv_reader(rest, after, <<>>, <<>>,
                                    Append(rows, Append(row, field)))
                    ELSE IF c = ","
                    THEN csv_reader(rest, "start_field", <<>>, Append(row, field), rows)
                    ELSE csv_reader(rest, "in_field", Append(field, c), row, rows)
               [] state = "in_quoted" ->
                    IF c = "\""
                    THEN csv_reader(rest, "quote_in_quoted", field, row, rows)
                    ELSE csv_reader(rest, "in_quoted", Append(field, c), row, rows)
               [] state = "quote_in_quoted" ->
                    IF c = "\""
                    THEN csv_reader(rest, "in_quoted", Append(field, c), row, rows)
                    ELSE IF c = ","
                    THEN csv_reader(rest, "start_field", <<>>, Append(row, field), rows)
                    ELSE IF newline
                    THEN csv_reader(rest, after, <<>>, <<>>,
                                    Append(rows, Append(row, field)))
                    ELSE csv_reader(rest, "in_field", Append(field, c), row, rows)

\* row.get(key) or "" of the dict a DictReader makes of a row: the field
\* under the last column of that name, "" when the row is shorter
RowGet(fieldnames, row, key) ==
    LET at == {j \in 1..Len(fieldnames) : fieldnames[j] = key /\ j <= Len(row)}
    IN  IF at = {} THEN <<>> ELSE row[PyMax(at)]

\* the loop over csv.reader: row[0].strip() of the rows that have one
LoadPlain(rows) ==
    LET vals == [k \in 1..Len(rows) |->
                    IF rows[k] = <<>> THEN <<>> ELSE StripWhitespace(rows[k][1])]
    IN  SelectSeq(vals, LAMBDA v : v # <<>>)

\* The loop over csv.DictReader: the first row gives the fieldnames, the key
\* is "match_link" when a stripped fieldname equals it and the first
\* fieldname otherwise, blank rows are skipped and so are blank values.
LoadKeyed(rows) ==
    LET fieldnames == rows[1]
        header_lower == {StripWhitespace(fieldnames[j]) :
                            j \in {i \in 1..Len(fieldnames) : fieldnames[i] # <<>>}}
        key == IF MatchLinkHeader \in header_lower THEN MatchLinkHeader
               ELSE fieldnames[1]
        vals == [k \in 1..(Len(rows) - 1) |->
                    IF rows[k + 1] = <<>> THEN <<>>
                    ELSE StripWhitespace(RowGet(fieldnames, rows[k + 1], key))]
    IN  SelectSeq(vals, LAMBDA v : v # <<>>)

\* a field the reader rejects with csv.Error
FieldTooLarge(rows) ==
    \E k \in 1..Len(rows) : \E j \in 1..Len(rows[k]) :
        Len(rows[k][j]) > field_size_limit

\* The loader of parse_and_validate_args for a token that names a file with
\* this text: args.match_links after it. from_file is FALSE when the reader
\* raised and the argument was left as given.
load_match_links(text) ==
    LET rows == csv_reader(text, "start_record", <<>>, <<>>, <<>>)
    IN  IF FieldTooLarge(rows) THEN [from_file |-> FALSE, links |-> <<>>]
        ELSE IF rows = <<>> \/ rows[1] = <<>>
        THEN [from_file |-> TRUE, links |-> LoadPlain(rows)]
        ELSE [from_file |-> TRUE, links |-> LoadKeyed(rows)]

InitReplay ==
    /\ rp_links \in ReplayLinkLists
    /\ rp_pc = "save"
    /\ rp_file = <<>>
    /\ rp_loaded = [from_file |-> FALSE, links |-> <<>>]

IdleReplay ==
    /\ rp_links = <<>>
    /\ rp_pc = "idle"
    /\ rp_file = <<>>
    /\ rp_loaded = [from_file |-> FALSE, links |-> <<>>]

\* save_collected_links(base_url, links): the text of the file it writes;
\* for an empty list it writes none and there is nothing to replay.
ReplaySave ==
    /\ rp_pc = "save"
    /\ \E url \in BaseUrls :
        LET f == save_collected_links(<<>>, 0, url, rp_links)
        IN  IF DOMAIN f = {}
            THEN rp_file' = <<>> /\ rp_pc' = "done"
            ELSE rp_file' = CsvText(f[FilePath(url, 0)]) /\ rp_pc' = "load"
    /\ UNCHANGED <<rp_links, rp_loaded>>
    /\ UNCHANGED othersOfReplay

\* parse_and_validate_args with the written file as the single --match_links
\* token
ReplayLoad ==
    /\ rp_pc = "load"
    /\ rp_loaded' = load_match_links(rp_file)
    /\ rp_pc' = "done"
    /\ UNCHANGED <<rp_links, rp_file>>
    /\ UNCHANGED othersOfReplay

NextReplay ==
    \/ ReplaySave
    \/ ReplayLoad

-----------------------------------------------------------------------------
(* Properties of the replay, checked under SpecReplay *)

\* the file was loaded back as the sorted, de-duplicated links
LoadedBackExactly ==
    /\ rp_loaded.from_file
    /\ rp_loaded.links = Sorted(Range(rp_links))

\* C28 as stated: for every non-empty link list, the file written by
\* save_collected_links is loaded back by parse_and_validate_args as exactly
\* the sorted, de-duplicated list of the links saved.
C28_RoundTripOfEveryList ==
    (rp_pc = "done" /\ rp_links # <<>>) => LoadedBackExactly

\* a link the loader leaves as it is: not empty, without leading or trailing
\* whitespace, within the field size limit of the reader
CleanLink(link) ==
    /\ link # <<>>
    /\ StripWhitespace(link) = link
    /\ Len(link) <= field_size_limit

\* C28, amended: for every non-empty list of links that are non-empty, have
\* no leading or trailing whitespace and fit the field size limit, the file
\* written by save_collected_links is loaded back as exactly the sorted,
\* de-duplicated list of the links saved.
C28_RoundTripOfCleanLinks ==
    (/\ rp_pc = "done"
     /\ rp_links # <<>>
     /\ \A i \in 1..Len(rp_links) : CleanLink(rp_links[i])) =>
        LoadedBackExactly

\* C28 witness: two different links, given out of order, one with a comma
\* and one with a quote character, came back sorted.
C28_Witness ==
    /\ rp_pc = "done"
    /\ Len(rp_links) = 2
    /\ \A i \in 1..2 : CleanLink(rp_links[i])
    /\ StrLess(rp_links[2], rp_links[1])
    /\ \E i \in 1..2 : "," \in Range(rp_links[i])
    /\ \E i \in 1..2 : "\"" \in Range(rp_links[i])
    /\ rp_loaded.links = <<rp_links[2], rp_links[1]>>

-----------------------------------------------------------------------------
(* LocalDataStorage.save_data, CSV format *)

\* the keys of the records
RecordKeys == {"a", "b"}

\* the orders in which a dict can hold these keys
KeyOrders == {<<"a", "b">>, <<"b", "a">>}

RecordValues == {"x", "y"}

\* a dict: its keys in insertion order and the value under each
Records == [keys : KeyOrders, vals : [RecordKeys -> RecordValues]]

\* the data argument: a dict, or a list of dicts
DataArguments ==
    {[dict |-> TRUE, items |-> <<r>>] : r \in Records}
        \cup {[dict |-> FALSE, items |-> l] : l \in SeqsUpTo(Records, MaxRecords)}

\* DictWriter.writerow(rec): the values under the fieldnames, in their order
RowOf(fieldnames, rec) ==
    [j \in 1..Len(fieldnames) |-> rec.vals[fieldnames[j]]]

\* _save_as_csv(data, file_path) on a file with these lines. open(mode="a")
\* creates the file; data[0] raises IndexError for an empty list; the header
\* is written when os.path.getsize(file_path) == 0; the exception is logged
\* and raised again.
_save_as_csv(file, data) ==
    IF data = <<>> THEN [file |-> file, exc |-> "IndexError"]
    ELSE LET fieldnames == data[1].keys
             header == IF file = <<>> THEN <<fieldnames>> ELSE <<>>
             rows == [k \in 1..Len(data) |-> RowOf(fieldnames, data[k])]
         IN  [file |-> file \o header \o rows, exc |-> "none"]

\* save_data(data, file_path, "csv"): a dict becomes a list of one
save_data(file, data) == _save_as_csv(file, data.items)

InitStorage ==
    /\ st_file = <<>>
    /\ st_exists = FALSE
    /\ st_calls = <<>>
    /\ st_exc = "none"

IdleStorage ==
    /\ st_file = <<>>
    /\ st_exists = FALSE
    /\ st_calls = <<"idle">>
    /\ st_exc = "none"

\* one call of save_data on the target path
SaveData ==
    /\ Len(st_calls) < MaxCalls
    /\ \E data \in DataArguments :
        LET r == save_data(st_file, data)
        IN  /\ st_file' = r.file
            /\ st_exc' = r.exc
            /\ st_calls' = Append(st_calls, data.items)
    /\ st_exists' = TRUE
    /\ UNCHANGED othersOfStorage

NextStorage == SaveData

-----------------------------------------------------------------------------
(* Properties of save_data, checked under SpecStorage *)

\* the records of the calls so far, in call order
RECURSIVE Flatten(_)
Flatten(lists) ==
    IF lists = <<>> THEN <<>> ELSE Head(lists) \o Flatten(Tail(lists))

\* C29: after any sequence of CSV calls of save_data on one path with
\* records of the same keys, the file is one header row, as its first line,
\* followed by one row for every record of every call, in call order, each
\* holding under every column of the header the record's value for that key.
C29_OneHeaderThenEveryRecord ==
    LET records == Flatten(st_calls)
    IN  records # <<>> =>
            /\ Len(st_file) = 1 + Len(records)
            /\ Range(st_file[1]) = RecordKeys
            /\ \A k \in 1..Len(records) : \A j \in 1..Len(st_file[1]) :
                st_file[k + 1][j] = records[k].vals[st_file[1][j]]

-----------------------------------------------------------------------------
(* The specifications *)

\* the groups above at rest
IdleMore == IdleArgs /\ IdleNavigate /\ IdleBanner /\ IdleScroll /\ IdlePage

IdleLater == IdleWaits /\ IdleReplay /\ IdleStorage

\* every group before the waits at rest
IdleEarlier == IdlePages /\ IdleExtract /\ IdleSave /\ IdleRun /\ IdleMore

InitSpecPages ==
    /\ InitPages /\ IdleExtract /\ IdleSave /\ IdleRun /\ IdleMore
    /\ IdleLater

SpecPages == InitSpecPages /\ [][NextPages]_vars

InitSpecExtract ==
    /\ InitExtract /\ IdlePages /\ IdleSave /\ IdleRun /\ IdleMore
    /\ IdleLater

SpecExtract == InitSpecExtract /\ [][NextExtract]_vars

InitSpecSave ==
    /\ InitSave /\ IdlePages /\ IdleExtract /\ IdleRun /\ IdleMore
    /\ IdleLater

SpecSave == InitSpecSave /\ [][NextSave]_vars

InitSpecFiles ==
    /\ InitFiles /\ IdlePages /\ IdleExtract /\ IdleRun /\ IdleMore
    /\ IdleLater

SpecFiles == InitSpecFiles /\ [][NextFiles]_vars

InitSpecArgs ==
    /\ InitArgs /\ IdlePages /\ IdleExtract /\ IdleSave /\ IdleRun
    /\ IdleNavigate /\ IdleBanner /\ IdleScroll /\ IdlePage
    /\ IdleLater

SpecArgs == InitSpecArgs /\ [][NextArgs]_vars

InitSpecNavigate ==
    /\ InitNavigate /\ IdlePages /\ IdleExtract /\ IdleSave /\ IdleRun
    /\ IdleArgs /\ IdleBanner /\ IdleScroll /\ IdlePage
    /\ IdleLater

SpecNavigate == InitSpecNavigate /\ [][NextNavigate]_vars

InitSpecBanner ==
    /\ InitBanner /\ IdlePages /\ IdleExtract /\ IdleSave /\ IdleRun
    /\ IdleArgs /\ IdleNavigate /\ IdleScroll /\ IdlePage
    /\ IdleLater

SpecBanner == InitSpecBanner /\ [][NextBanner]_vars

InitSpecScroll ==
    /\ InitScroll /\ IdlePages /\ IdleExtract /\ IdleSave /\ IdleRun
    /\ IdleArgs /\ IdleNavigate /\ IdleBanner /\ IdlePage
    /\ IdleLater

SpecScroll == InitSpecScroll /\ [][NextScroll]_vars

InitSpecPage ==
    /\ InitPage /\ IdleRunOfPage /\ IdlePages /\ IdleExtract /\ IdleSave
    /\ IdleArgs /\ IdleNavigate /\ IdleBanner /\ IdleScroll
    /\ IdleLater

SpecPage == InitSpecPage /\ [][NextPageLoop]_vars

InitSpecWaits == InitWaits /\ IdleEarlier /\ IdleReplay /\ IdleStorage

SpecWaits == InitSpecWaits /\ [][NextWaits]_vars

\* the interpreter runs the next statement of the wait whenever there is one
SpecWaitsFair == InitSpecWaits /\ [][NextWaits]_vars /\ WF_vars(NextWaits)

InitSpecReplay == InitReplay /\ IdleEarlier /\ IdleWaits /\ IdleStorage

SpecReplay == InitSpecReplay /\ [][NextReplay]_vars

InitSpecStorage == InitStorage /\ IdleEarlier /\ IdleWaits /\ IdleReplay

SpecStorage == InitSpecStorage /\ [][NextStorage]_vars

\* the run of capture_links_selenium(args)
Init ==
    /\ InitRun
    /\ max_pages \in MaxPagesArgs
    /\ fs = <<>>
    /\ now = 0
    /\ dom = <<>>
    /\ live_exc = FALSE
    /\ src_exc = FALSE
    /\ pages_pc = "idle"
    /\ pages_ret = <<>>
    /\ sv_base_url = <<>>
    /\ sv_links = <<>>
    /\ save_pc = "idle"
    /\ written = [c \in Captures |-> NoFile]
    /\ IdleExtract
    /\ IdleMore
    /\ IdleLater

Spec == Init /\ [][Next]_vars

=============================================================================
